---- MODULE Spec2Model ----
(***************************************************************************)
(* Slay: the territory engine (engine/hex_grid.py, engine/territory.py,    *)
(* engine/game_state.py, engine/units.py) and the alpha-beta search core   *)
(* (ai/alphabeta_ai.py), as a state machine.                               *)
(*                                                                         *)
(* A position is <<col, row>>.  The grid is a function from positions to   *)
(* cells; a cell is a record with the fields of Hex.  A territory is a     *)
(* record with the fields of Territory; its hexes are a sequence of        *)
(* positions in the order flood_fill produced them.                        *)
(***************************************************************************)
EXTENDS Integers, Sequences, FiniteSets, TLC

VARIABLES
    grid,                \* GameState.grid.hexes: position -> cell
    territories,         \* GameState.territories: sequence of territories
    current_player_idx,  \* GameState.current_player_idx
    turn_number,         \* GameState.turn_number
    alive,               \* Player.alive, per player id
    game_over,           \* GameState.game_over
    winner,              \* GameState.winner (NoWinner for None)
    phase,               \* "start": start_turn is due; "play": awaiting an action
    search,              \* the locals and globals of the running search call
    stack,               \* its call stack: the root loop, then alphabeta frames
    ret,                 \* the value a callee has just returned to the top frame
    applied,             \* history: the fast_apply calls not yet undone
    lifo_ok,             \* history: every fast_undo so far undid the latest of them
    ai                   \* the locals of the running AlphaBetaAI.take_turn call

gvars == <<grid, territories, current_player_idx, turn_number, alive,
           game_over, winner, phase>>

svars == <<search, stack, ret, applied, lifo_ok>>

vars == <<grid, territories, current_player_idx, turn_number, alive,
          game_over, winner, phase, search, stack, ret, applied, lifo_ok, ai>>

-----------------------------------------------------------------------------
(* engine/units.py *)

NONE == 0
TREE_PINE == 1
TREE_PALM == 2
PEASANT == 3
SPEARMAN == 4
KNIGHT == 5
BARON == 6

PEASANT_COST == 10
CASTLE_COST == 15
CAPITAL_DEFENSE == 1
CASTLE_DEFENSE == 2

CombatUnits == {PEASANT, SPEARMAN, KNIGHT, BARON}

unit_power(u) == IF u \in CombatUnits THEN u - 2 ELSE 0

unit_wage(u) ==
    CASE u = PEASANT -> 2
      [] u = SPEARMAN -> 6
      [] u = KNIGHT -> 18
      [] u = BARON -> 54
      [] OTHER -> 0

NoUnit == -1    \* combine_units returning None

\* combine_units without the cap at power 4.
combine_units_uncapped(type_a, type_b) ==
    LET power_a == unit_power(type_a)
        power_b == unit_power(type_b)
    IN  IF power_a = 0 \/ power_b = 0 THEN NoUnit
        ELSE power_a + power_b + 2

combine_units(type_a, type_b) ==
    LET power_a == unit_power(type_a)
        power_b == unit_power(type_b)
    IN  IF power_a = 0 \/ power_b = 0 THEN NoUnit
        ELSE IF power_a + power_b > 4 THEN NoUnit
        ELSE power_a + power_b + 2

-----------------------------------------------------------------------------
(* Sequence helpers *)

SeqToSet(s) == {s[i] : i \in DOMAIN s}

Contains(s, x) == \E i \in DOMAIN s : s[i] = x

Max2(a, b) == IF a >= b THEN a ELSE b

RECURSIVE SumSeq(_)
SumSeq(s) == IF s = <<>> THEN 0 ELSE Head(s) + SumSeq(Tail(s))

\* The concatenation of a sequence of sequences.
RECURSIVE Flatten(_)
Flatten(ss) == IF ss = <<>> THEN <<>> ELSE Head(ss) \o Flatten(Tail(ss))

\* The index of the first element of s satisfying Test (0 when none does).
FirstIdx(s, Test(_)) ==
    IF \E i \in DOMAIN s : Test(s[i])
    THEN CHOOSE i \in DOMAIN s : Test(s[i]) /\ \A j \in 1..(i - 1) : ~Test(s[j])
    ELSE 0

-----------------------------------------------------------------------------
(* engine/hex_grid.py *)

\* The offsets of the odd columns, were they those of the even columns.
NEIGHBOR_DIRS_ODD_as_even ==
    << <<1, 0>>, <<1, -1>>, <<0, -1>>, <<-1, -1>>, <<-1, 0>>, <<0, 1>> >>

NEIGHBOR_DIRS_EVEN ==
    << <<1, 0>>, <<1, -1>>, <<0, -1>>, <<-1, -1>>, <<-1, 0>>, <<0, 1>> >>
NEIGHBOR_DIRS_ODD ==
    << <<1, 1>>, <<1, 0>>, <<0, -1>>, <<-1, 0>>, <<-1, 1>>, <<0, 1>> >>

\* Hex.__init__
NewHex(land) ==
    [is_land |-> land, owner |-> -1, unit |-> NONE, has_capital |-> FALSE,
     has_castle |-> FALSE, grave |-> FALSE, can_move |-> FALSE]

is_empty_land(h) ==
    h.is_land /\ h.unit = NONE /\ ~h.has_capital /\ ~h.has_castle /\ ~h.grave

has_tree(h) == h.unit \in {TREE_PINE, TREE_PALM}

has_combat_unit(h) == h.unit \in CombatUnits

defense_power(h) ==
    LET p0 == unit_power(h.unit)
        p1 == IF h.has_capital THEN Max2(p0, CAPITAL_DEFENSE) ELSE p0
    IN  IF h.has_castle THEN Max2(p1, CASTLE_DEFENSE) ELSE p1

produces_income(h) ==
    IF ~h.is_land THEN FALSE
    ELSE IF has_tree(h) \/ h.grave THEN FALSE
    ELSE TRUE

clear_unit(h) == [h EXCEPT !.unit = NONE, !.can_move = FALSE]

kill_unit(h) ==
    IF has_combat_unit(h)
    THEN [h EXCEPT !.unit = NONE, !.grave = TRUE, !.can_move = FALSE]
    ELSE h

\* HexGrid.__init__ fills the dict column by column: the iteration order of
\* grid.hexes.values() and of all_land().
GridWidth(g) == 1 + CHOOSE c \in {p[1] : p \in DOMAIN g} :
                        \A q \in DOMAIN g : q[1] <= c
GridHeight(g) == 1 + CHOOSE r \in {p[2] : p \in DOMAIN g} :
                        \A q \in DOMAIN g : q[2] <= r

HexOrder(g) ==
    LET h == GridHeight(g)
    IN  [i \in 1..(GridWidth(g) * h) |-> <<(i - 1) \div h, (i - 1) % h>>]

get_neighbors(g, p) ==
    LET dirs == IF p[1] % 2 = 1 THEN NEIGHBOR_DIRS_ODD ELSE NEIGHBOR_DIRS_EVEN
        cand == [i \in 1..6 |-> <<p[1] + dirs[i][1], p[2] + dirs[i][2]>>]
    IN  SelectSeq(cand, LAMBDA q : q \in DOMAIN g)

\* A relative power that is the defence power of the cell alone.
get_relative_power_own_cell(g, p) == defense_power(g[p])

get_relative_power(g, p) ==
    LET nb == get_neighbors(g, p)
        ps == {defense_power(g[p])} \cup
              {defense_power(g[nb[i]]) : i \in {j \in DOMAIN nb : g[nb[j]].owner = g[p].owner}}
    IN  CHOOSE m \in ps : \A x \in ps : x <= m

is_coastal(g, p) ==
    LET nb == get_neighbors(g, p)
    IN  Cardinality({i \in DOMAIN nb : g[nb[i]].is_land}) < 6

all_land(g) == SelectSeq(HexOrder(g), LAMBDA p : g[p].is_land)

RECURSIVE flood_bfs(_, _, _, _, _)
flood_bfs(g, owner, queue, visited, result) ==
    IF queue = <<>> THEN result
    ELSE LET current == Head(queue)
             new == SelectSeq(get_neighbors(g, current),
                        LAMBDA n : n \notin visited /\ g[n].is_land
                                   /\ g[n].owner = owner)
         IN  flood_bfs(g, owner, Tail(queue) \o new,
                       visited \cup SeqToSet(new), Append(result, current))

\* A flood fill that stops at the neighbours of the start cell.
flood_fill_one_ring(g, start, owner) ==
    IF ~g[start].is_land \/ g[start].owner # owner THEN <<>>
    ELSE <<start>> \o SelectSeq(get_neighbors(g, start),
                          LAMBDA n : n # start /\ g[n].is_land
                                     /\ g[n].owner = owner)

flood_fill(g, start, owner) ==
    IF ~g[start].is_land \/ g[start].owner # owner THEN <<>>
    ELSE flood_bfs(g, owner, <<start>>, {start}, <<>>)

-----------------------------------------------------------------------------
(* engine/territory.py *)

NoHex == <<-1, -1>>    \* None where a position or a Hex is expected

\* Territory.__init__
NewTerritory(hexes, owner) ==
    [hexes |-> hexes, owner |-> owner, gold |-> 0, capital_hex |-> NoHex]

\* Territory.capital_hex: the cached hex while it is still a member, else the
\* first member with has_capital.  (Every capital is placed by place_capital,
\* which sets the cache, so the scan never finds one the cache lacks.)
capital_hex(g, t) ==
    IF t.capital_hex # NoHex /\ Contains(t.hexes, t.capital_hex)
    THEN t.capital_hex
    ELSE LET k == FirstIdx(t.hexes, LAMBDA p : g[p].has_capital)
         IN  IF k = 0 THEN NoHex ELSE t.hexes[k]

income(g, t) ==
    Cardinality({i \in DOMAIN t.hexes : produces_income(g[t.hexes[i]])})

wages(g, t) == SumSeq([i \in DOMAIN t.hexes |-> unit_wage(g[t.hexes[i]].unit)])

net_income(g, t) == income(g, t) - wages(g, t)

contains(t, p) == Contains(t.hexes, p)

\* Territory._go_bankrupt
\* A bankruptcy that empties the treasury and kills nobody.
go_bankrupt_spares_units(g, t) ==
    [grid |-> g, terr |-> [t EXCEPT !.gold = 0]]

\* A bankruptcy that kills the units and leaves the debt in the treasury.
go_bankrupt_keeps_debt(g, t) ==
    [grid |-> [p \in DOMAIN g |-> IF contains(t, p) THEN kill_unit(g[p]) ELSE g[p]],
     terr |-> t]

go_bankrupt(g, t) ==
    [grid |-> [p \in DOMAIN g |-> IF contains(t, p) THEN kill_unit(g[p]) ELSE g[p]],
     terr |-> [t EXCEPT !.gold = 0]]

\* An income collection that bankrupts whenever wages exceed income,
\* whatever the treasury holds.
collect_income_ignores_treasury(g, t) ==
    LET gold == t.gold + net_income(g, t)
    IN  IF net_income(g, t) < 0
        THEN go_bankrupt(g, [t EXCEPT !.gold = gold])
        ELSE [grid |-> g, terr |-> [t EXCEPT !.gold = gold]]

collect_income(g, t) ==
    LET gold == t.gold + net_income(g, t)
    IN  IF gold < 0
        THEN go_bankrupt(g, [t EXCEPT !.gold = gold])
        ELSE [grid |-> g, terr |-> [t EXCEPT !.gold = gold]]

\* A capital placement that leaves a grave where it finds one.
place_capital_keeps_grave(g, t, p) ==
    [grid |-> [g EXCEPT ![p].has_capital = TRUE],
     terr |-> [t EXCEPT !.capital_hex = p]]

\* Territory._place_capital
place_capital(g, t, p) ==
    [grid |-> [g EXCEPT ![p].has_capital = TRUE, ![p].grave = FALSE],
     terr |-> [t EXCEPT !.capital_hex = p]]

\* units.sort(key=power, reverse=True)[0]: the sort is stable, so the first
\* member of highest power.
StrongestUnit(g, units) ==
    units[FirstIdx(units, LAMBDA p : \A q \in SeqToSet(units) :
                       unit_power(g[q].unit) <= unit_power(g[p].unit))]

\* An ensure_capital that takes the first free cell, wherever it lies.
ensure_capital_anywhere(g, t, avoid, preferred) ==
    IF Len(t.hexes) >= 2
    THEN IF capital_hex(g, t) # NoHex THEN [grid |-> g, terr |-> t]
         ELSE IF preferred # NoHex /\ contains(t, preferred)
         THEN place_capital(g, t, preferred)
         ELSE LET candidates == SelectSeq(t.hexes, LAMBDA p :
                      ~has_combat_unit(g[p]) /\ ~g[p].has_castle /\ ~has_tree(g[p]))
                  castles == SelectSeq(t.hexes, LAMBDA p : g[p].has_castle)
                  units == SelectSeq(t.hexes, LAMBDA p : has_combat_unit(g[p]))
              IN  IF candidates # <<>>
                  THEN place_capital(g, t, candidates[1])
                  ELSE IF castles # <<>>
                  THEN place_capital([g EXCEPT ![castles[1]].has_castle = FALSE],
                                     t, castles[1])
                  ELSE IF units # <<>>
                  THEN LET h == StrongestUnit(g, units)
                       IN  place_capital([g EXCEPT ![h].unit = NONE, ![h].grave = TRUE,
                                                   ![h].can_move = FALSE], t, h)
                  ELSE place_capital([g EXCEPT ![t.hexes[1]].unit = NONE], t, t.hexes[1])
    ELSE [grid |-> [p \in DOMAIN g |->
                       IF contains(t, p) THEN [g[p] EXCEPT !.has_capital = FALSE] ELSE g[p]],
          terr |-> [t EXCEPT !.capital_hex = NoHex]]

\* An ensure_capital that, finding no free cell, kills a unit before it
\* demolishes a castle.
ensure_capital_spares_castles(g, t, avoid, preferred) ==
    IF Len(t.hexes) >= 2
    THEN IF capital_hex(g, t) # NoHex THEN [grid |-> g, terr |-> t]
         ELSE IF preferred # NoHex /\ contains(t, preferred)
         THEN place_capital(g, t, preferred)
         ELSE LET candidates == SelectSeq(t.hexes, LAMBDA p :
                      ~has_combat_unit(g[p]) /\ ~g[p].has_castle /\ ~has_tree(g[p]))
                  safe == SelectSeq(candidates, LAMBDA p : p \notin avoid)
                  castles == SelectSeq(t.hexes, LAMBDA p : g[p].has_castle)
                  units == SelectSeq(t.hexes, LAMBDA p : has_combat_unit(g[p]))
              IN  IF candidates # <<>>
                  THEN place_capital(g, t,
                           IF avoid # {} /\ safe # <<>> THEN safe[1] ELSE candidates[1])
                  ELSE IF units # <<>>
                  THEN LET h == StrongestUnit(g, units)
                       IN  place_capital([g EXCEPT ![h].unit = NONE, ![h].grave = TRUE,
                                                   ![h].can_move = FALSE], t, h)
                  ELSE IF castles # <<>>
                  THEN place_capital([g EXCEPT ![castles[1]].has_castle = FALSE],
                                     t, castles[1])
                  ELSE place_capital([g EXCEPT ![t.hexes[1]].unit = NONE], t, t.hexes[1])
    ELSE [grid |-> [p \in DOMAIN g |->
                       IF contains(t, p) THEN [g[p] EXCEPT !.has_capital = FALSE] ELSE g[p]],
          terr |-> [t EXCEPT !.capital_hex = NoHex]]

\* avoid is the set avoid_adjacent_to ({} for None); preferred is NoHex for None.
ensure_capital(g, t, avoid, preferred) ==
    IF Len(t.hexes) >= 2
    THEN IF capital_hex(g, t) # NoHex THEN [grid |-> g, terr |-> t]
         ELSE IF preferred # NoHex /\ contains(t, preferred)
         THEN place_capital(g, t, preferred)
         ELSE LET candidates == SelectSeq(t.hexes, LAMBDA p :
                      ~has_combat_unit(g[p]) /\ ~g[p].has_castle /\ ~has_tree(g[p]))
                  safe == SelectSeq(candidates, LAMBDA p : p \notin avoid)
                  castles == SelectSeq(t.hexes, LAMBDA p : g[p].has_castle)
                  units == SelectSeq(t.hexes, LAMBDA p : has_combat_unit(g[p]))
              IN  IF candidates # <<>>
                  THEN place_capital(g, t,
                           IF avoid # {} /\ safe # <<>> THEN safe[1] ELSE candidates[1])
                  ELSE IF castles # <<>>
                  THEN place_capital([g EXCEPT ![castles[1]].has_castle = FALSE],
                                     t, castles[1])
                  ELSE IF units # <<>>
                  THEN LET h == StrongestUnit(g, units)
                       IN  place_capital([g EXCEPT ![h].unit = NONE, ![h].grave = TRUE,
                                                   ![h].can_move = FALSE], t, h)
                  ELSE place_capital([g EXCEPT ![t.hexes[1]].unit = NONE], t, t.hexes[1])
    ELSE [grid |-> [p \in DOMAIN g |->
                       IF contains(t, p) THEN [g[p] EXCEPT !.has_capital = FALSE] ELSE g[p]],
          terr |-> [t EXCEPT !.capital_hex = NoHex]]

-----------------------------------------------------------------------------
(* engine/game_state.py: territory management *)

NoAvoid == [owner |-> -2, zone |-> {}]    \* capital_avoid = None

\* "Clear all capitals" (lines 206-208).
\* A refresh that leaves the old capital flags on the grid.
clear_capitals_skipped(g) == g

clear_capitals(g) ==
    [p \in DOMAIN g |->
        IF g[p].is_land THEN [g[p] EXCEPT !.has_capital = FALSE] ELSE g[p]]

\* The flood-fill loop of refresh_territories over all_land().
RECURSIVE find_regions(_, _, _, _)
find_regions(g, land, visited, acc) ==
    IF land = <<>> THEN acc
    ELSE LET h == Head(land)
         IN  IF h \in visited \/ g[h].owner < 0
             THEN find_regions(g, Tail(land), visited, acc)
             ELSE LET region == flood_fill(g, h, g[h].owner)
                  IN  find_regions(g, Tail(land), visited \cup SeqToSet(region),
                          IF region # <<>>
                          THEN Append(acc, NewTerritory(region, g[h].owner))
                          ELSE acc)

\* A sort key of merged_caps that looks at prev_size only.
CapKeyLE_size_only(sa, pa, sb, pb) == sa <= sb

\* The sort key of merged_caps: (prev_size, pos == priority_cap_pos).
CapKeyLE(sa, pa, sb, pb) == sa < sb \/ (sa = sb /\ (pa => pb))

\* t.gold = sum(g for _, g, _ in merged_caps)
\* A merge that keeps the treasury of the surviving capital only.
merged_gold_of_survivor(merged_caps, old) ==
    IF merged_caps = <<>> THEN 0 ELSE old[merged_caps[1]].gold

merged_gold(merged_caps, old) ==
    SumSeq([k \in DOMAIN merged_caps |-> old[merged_caps[k]].gold])

\* The "restore gold and place capitals" loop of refresh_territories:
\* old(p) is old_caps[p] (size 0 when p is no old capital).
RECURSIVE restore_caps(_, _, _, _, _, _, _)
restore_caps(g, fresh, i, old, priority_cap_pos, capital_avoid, acc) ==
    IF i > Len(fresh) THEN [grid |-> g, territories |-> acc]
    ELSE LET t == fresh[i]
             merged_caps == SelectSeq(t.hexes, LAMBDA p :
                                old[p].size > 0 /\ old[p].owner = t.owner)
             gold == merged_gold(merged_caps, old)
             preferred_cap ==
                 IF merged_caps = <<>> THEN NoHex
                 ELSE merged_caps[FirstIdx(merged_caps, LAMBDA p :
                          \A q \in SeqToSet(merged_caps) :
                              CapKeyLE(old[q].size, q = priority_cap_pos,
                                       old[p].size, p = priority_cap_pos))]
             avoid == IF t.owner = capital_avoid.owner THEN capital_avoid.zone ELSE {}
             r == ensure_capital(g, [t EXCEPT !.gold = gold], avoid, preferred_cap)
         IN  restore_caps(r.grid, fresh, i + 1, old, priority_cap_pos,
                          capital_avoid, Append(acc, r.terr))

refresh_territories(g, terrs, capital_avoid, merge_priority_pos) ==
    LET capOf == [i \in DOMAIN terrs |-> capital_hex(g, terrs[i])]
        old == [p \in DOMAIN g |->
                   IF \E i \in DOMAIN terrs : capOf[i] = p
                   THEN LET i == CHOOSE i \in DOMAIN terrs :
                                     capOf[i] = p /\ \A j \in DOMAIN terrs :
                                                        j > i => capOf[j] # p
                        IN  [owner |-> terrs[i].owner, gold |-> terrs[i].gold,
                             size |-> Len(terrs[i].hexes)]
                   ELSE [owner |-> -2, gold |-> 0, size |-> 0]]
        priority_cap_pos ==
            IF merge_priority_pos = NoHex THEN NoHex
            ELSE LET k == FirstIdx(terrs, LAMBDA t : contains(t, merge_priority_pos))
                 IN  IF k = 0 THEN NoHex ELSE capOf[k]
        cleared == clear_capitals(g)
        fresh == find_regions(cleared, all_land(cleared), {}, <<>>)
    IN  restore_caps(cleared, fresh, 1, old, priority_cap_pos, capital_avoid, <<>>)

-----------------------------------------------------------------------------
(* engine/game_state.py: the game state as a value, and its operations.     *)
(* An operation maps a game state and its arguments to [ok, gs]: the value  *)
(* it returns and the state it leaves.  Player ids equal player indexes.    *)

NumPlayers == 2        \* GameState(num_players=2)
NoWinner == -1         \* GameState.winner = None

Players == 0..(NumPlayers - 1)

GS == [grid |-> grid, territories |-> territories,
       current_player_idx |-> current_player_idx, turn_number |-> turn_number,
       alive |-> alive, game_over |-> game_over, winner |-> winner]

Failed(gs) == [ok |-> FALSE, gs |-> gs]
Done(gs) == [ok |-> TRUE, gs |-> gs]

\* The indexes (into gs.territories) of get_player_territories(player_id).
get_player_territories(gs, player_id) ==
    SelectSeq([i \in DOMAIN gs.territories |-> i],
              LAMBDA i : gs.territories[i].owner = player_id)

\* territory is an index into gs.territories, target_hex a position.
buy_peasant(gs, territory, target_hex) ==
    LET t == gs.territories[territory]
        th == gs.grid[target_hex]
        paid == [gs.territories EXCEPT ![territory].gold = @ - PEASANT_COST]
    IN  IF t.owner # gs.current_player_idx THEN Failed(gs)
        ELSE IF t.gold < PEASANT_COST THEN Failed(gs)
        ELSE IF ~contains(t, target_hex) THEN Failed(gs)
        ELSE IF has_combat_unit(th)
        THEN LET combined == combine_units(th.unit, PEASANT)
             IN  IF combined = NoUnit THEN Failed(gs)
                 ELSE Done([gs EXCEPT
                         !.grid = [@ EXCEPT ![target_hex].unit = combined,
                                            ![target_hex].can_move = TRUE],
                         !.territories = paid])
        ELSE IF is_empty_land(th) \/ has_tree(th) \/ th.grave
        THEN Done([gs EXCEPT
                 !.grid = [@ EXCEPT ![target_hex].unit = PEASANT,
                                    ![target_hex].grave = FALSE,
                                    ![target_hex].can_move = TRUE],
                 !.territories = paid])
        ELSE Failed(gs)

\* buy_castle, were it to leave what stands on the cell.
buy_castle_keeps_tree(gs, territory, target_hex) ==
    LET t == gs.territories[territory]
        th == gs.grid[target_hex]
    IN  IF t.owner # gs.current_player_idx THEN Failed(gs)
        ELSE IF t.gold < CASTLE_COST THEN Failed(gs)
        ELSE IF ~contains(t, target_hex) THEN Failed(gs)
        ELSE IF th.has_castle \/ th.has_capital THEN Failed(gs)
        ELSE IF has_combat_unit(th) THEN Failed(gs)
        ELSE IF ~th.is_land THEN Failed(gs)
        ELSE Done([gs EXCEPT
                 !.grid = [@ EXCEPT ![target_hex].has_castle = TRUE,
                                    ![target_hex].grave = FALSE],
                 !.territories = [@ EXCEPT ![territory].gold = @ - CASTLE_COST]])

buy_castle(gs, territory, target_hex) ==
    LET t == gs.territories[territory]
        th == gs.grid[target_hex]
    IN  IF t.owner # gs.current_player_idx THEN Failed(gs)
        ELSE IF t.gold < CASTLE_COST THEN Failed(gs)
        ELSE IF ~contains(t, target_hex) THEN Failed(gs)
        ELSE IF th.has_castle \/ th.has_capital THEN Failed(gs)
        ELSE IF has_combat_unit(th) THEN Failed(gs)
        ELSE IF ~th.is_land THEN Failed(gs)
        ELSE Done([gs EXCEPT
                 !.grid = [@ EXCEPT ![target_hex].has_castle = TRUE,
                                    ![target_hex].grave = FALSE,
                                    ![target_hex].unit = NONE],
                 !.territories = [@ EXCEPT ![territory].gold = @ - CASTLE_COST]])

\* move_within, were it to take the unit off from_hex before it tests the
\* combination.
move_within_clears_first(gs, from_hex, to_hex) ==
    LET g == gs.grid
        unit_type == g[from_hex].unit
        th == g[to_hex]
        lifted == [g EXCEPT ![from_hex] = clear_unit(g[from_hex])]
        finish(g1) == Done([gs EXCEPT !.grid = g1])
    IN  IF has_combat_unit(th)
        THEN LET combined == combine_units(th.unit, unit_type)
             IN  IF combined = NoUnit THEN Failed([gs EXCEPT !.grid = lifted])
                 ELSE finish([lifted EXCEPT ![to_hex].unit = combined,
                                            ![to_hex].can_move = TRUE])
        ELSE IF has_tree(th)
        THEN finish([lifted EXCEPT ![to_hex].unit = unit_type,
                                   ![to_hex].can_move = FALSE])
        ELSE IF th.grave
        THEN finish([lifted EXCEPT ![to_hex].unit = unit_type,
                                   ![to_hex].can_move = FALSE,
                                   ![to_hex].grave = FALSE])
        ELSE IF is_empty_land(th)
        THEN finish([lifted EXCEPT ![to_hex].unit = unit_type,
                                   ![to_hex].can_move = TRUE])
        ELSE Failed([gs EXCEPT !.grid = lifted])

\* The "moving within own territory" branch of move_unit (lines 473-497).
move_within(gs, from_hex, to_hex) ==
    LET g == gs.grid
        unit_type == g[from_hex].unit
        th == g[to_hex]
        finish(g1) == Done([gs EXCEPT
                          !.grid = [g1 EXCEPT ![from_hex] = clear_unit(g1[from_hex])]])
    IN  IF has_combat_unit(th)
        THEN LET combined == combine_units(th.unit, unit_type)
             IN  IF combined = NoUnit THEN Failed(gs)
                 ELSE finish([g EXCEPT ![to_hex].unit = combined,
                                       ![to_hex].can_move = TRUE])
        ELSE IF has_tree(th)
        THEN finish([g EXCEPT ![to_hex].unit = unit_type, ![to_hex].can_move = FALSE])
        ELSE IF th.grave
        THEN finish([g EXCEPT ![to_hex].unit = unit_type, ![to_hex].can_move = FALSE,
                              ![to_hex].grave = FALSE])
        ELSE IF is_empty_land(th)
        THEN finish([g EXCEPT ![to_hex].unit = unit_type, ![to_hex].can_move = TRUE])
        ELSE Failed(gs)

\* move_attack, were it to let a unit capture a cell it only equals in power.
move_attack_on_equal_power(gs, source, from_hex, to_hex) ==
    LET g == gs.grid
        player_id == gs.current_player_idx
        unit_type == g[from_hex].unit
        st == gs.territories[source]
        old_owner == g[to_hex].owner
        captured_capital == g[to_hex].has_capital
        victim == FirstIdx(gs.territories,
                           LAMBDA t : t.owner = old_owner /\ contains(t, to_hex))
        terrs1 == IF captured_capital /\ victim # 0
                  THEN [gs.territories EXCEPT ![victim].gold = 0]
                  ELSE gs.territories
        g1 == [g EXCEPT ![to_hex].owner = player_id, ![to_hex].unit = unit_type,
                        ![to_hex].has_capital = FALSE, ![to_hex].has_castle = FALSE,
                        ![to_hex].grave = FALSE, ![to_hex].can_move = FALSE]
        g2 == [g1 EXCEPT ![from_hex] = clear_unit(g1[from_hex])]
        capital_avoid ==
            IF captured_capital
            THEN [owner |-> old_owner,
                  zone |-> {to_hex} \cup SeqToSet(get_neighbors(g, to_hex))]
            ELSE NoAvoid
        r == refresh_territories(g2, terrs1, capital_avoid, from_hex)
    IN  IF ~\E i \in DOMAIN st.hexes : Contains(get_neighbors(g, st.hexes[i]), to_hex)
        THEN Failed(gs)
        ELSE IF unit_power(unit_type) < get_relative_power(g, to_hex) THEN Failed(gs)
        ELSE Done([gs EXCEPT !.grid = r.grid, !.territories = r.territories])

\* move_attack, were the capturing unit to keep its movement.
move_attack_keeps_moving(gs, source, from_hex, to_hex) ==
    LET g == gs.grid
        player_id == gs.current_player_idx
        unit_type == g[from_hex].unit
        st == gs.territories[source]
        old_owner == g[to_hex].owner
        captured_capital == g[to_hex].has_capital
        victim == FirstIdx(gs.territories,
                           LAMBDA t : t.owner = old_owner /\ contains(t, to_hex))
        terrs1 == IF captured_capital /\ victim # 0
                  THEN [gs.territories EXCEPT ![victim].gold = 0]
                  ELSE gs.territories
        g1 == [g EXCEPT ![to_hex].owner = player_id, ![to_hex].unit = unit_type,
                        ![to_hex].has_capital = FALSE, ![to_hex].has_castle = FALSE,
                        ![to_hex].grave = FALSE, ![to_hex].can_move = TRUE]
        g2 == [g1 EXCEPT ![from_hex] = clear_unit(g1[from_hex])]
        capital_avoid ==
            IF captured_capital
            THEN [owner |-> old_owner,
                  zone |-> {to_hex} \cup SeqToSet(get_neighbors(g, to_hex))]
            ELSE NoAvoid
        r == refresh_territories(g2, terrs1, capital_avoid, from_hex)
    IN  IF ~\E i \in DOMAIN st.hexes : Contains(get_neighbors(g, st.hexes[i]), to_hex)
        THEN Failed(gs)
        ELSE IF unit_power(unit_type) <= get_relative_power(g, to_hex) THEN Failed(gs)
        ELSE Done([gs EXCEPT !.grid = r.grid, !.territories = r.territories])

\* move_attack, were it to empty the victim's treasury on every capture.
move_attack_always_zeroes(gs, source, from_hex, to_hex) ==
    LET g == gs.grid
        player_id == gs.current_player_idx
        unit_type == g[from_hex].unit
        st == gs.territories[source]
        old_owner == g[to_hex].owner
        captured_capital == g[to_hex].has_capital
        victim == FirstIdx(gs.territories,
                           LAMBDA t : t.owner = old_owner /\ contains(t, to_hex))
        terrs1 == IF victim # 0
                  THEN [gs.territories EXCEPT ![victim].gold = 0]
                  ELSE gs.territories
        g1 == [g EXCEPT ![to_hex].owner = player_id, ![to_hex].unit = unit_type,
                        ![to_hex].has_capital = FALSE, ![to_hex].has_castle = FALSE,
                        ![to_hex].grave = FALSE, ![to_hex].can_move = FALSE]
        g2 == [g1 EXCEPT ![from_hex] = clear_unit(g1[from_hex])]
        capital_avoid ==
            IF captured_capital
            THEN [owner |-> old_owner,
                  zone |-> {to_hex} \cup SeqToSet(get_neighbors(g, to_hex))]
            ELSE NoAvoid
        r == refresh_territories(g2, terrs1, capital_avoid, from_hex)
    IN  IF ~\E i \in DOMAIN st.hexes : Contains(get_neighbors(g, st.hexes[i]), to_hex)
        THEN Failed(gs)
        ELSE IF unit_power(unit_type) <= get_relative_power(g, to_hex) THEN Failed(gs)
        ELSE Done([gs EXCEPT !.grid = r.grid, !.territories = r.territories])

\* The "attacking enemy/neutral hex" branch of move_unit (lines 499-548);
\* source is the index of the source territory.
move_attack(gs, source, from_hex, to_hex) ==
    LET g == gs.grid
        player_id == gs.current_player_idx
        unit_type == g[from_hex].unit
        st == gs.territories[source]
        neighbor_of_territory ==
            \E i \in DOMAIN st.hexes : Contains(get_neighbors(g, st.hexes[i]), to_hex)
        defense == get_relative_power(g, to_hex)
        old_owner == g[to_hex].owner
        captured_capital == g[to_hex].has_capital
        victim == FirstIdx(gs.territories,
                           LAMBDA t : t.owner = old_owner /\ contains(t, to_hex))
        terrs1 == IF captured_capital /\ victim # 0
                  THEN [gs.territories EXCEPT ![victim].gold = 0]
                  ELSE gs.territories
        g1 == [g EXCEPT ![to_hex].owner = player_id, ![to_hex].unit = unit_type,
                        ![to_hex].has_capital = FALSE, ![to_hex].has_castle = FALSE,
                        ![to_hex].grave = FALSE, ![to_hex].can_move = FALSE]
        g2 == [g1 EXCEPT ![from_hex] = clear_unit(g1[from_hex])]
        capital_avoid ==
            IF captured_capital
            THEN [owner |-> old_owner,
                  zone |-> {to_hex} \cup SeqToSet(get_neighbors(g, to_hex))]
            ELSE NoAvoid
        r == refresh_territories(g2, terrs1, capital_avoid, from_hex)
    IN  IF ~neighbor_of_territory THEN Failed(gs)
        ELSE IF unit_power(unit_type) <= defense THEN Failed(gs)
        ELSE Done([gs EXCEPT !.grid = r.grid, !.territories = r.territories])

move_unit(gs, from_hex, to_hex) ==
    LET g == gs.grid
        player_id == gs.current_player_idx
        fh == g[from_hex]
        th == g[to_hex]
        source == FirstIdx(gs.territories,
                           LAMBDA t : t.owner = player_id /\ contains(t, from_hex))
    IN  IF fh.owner # player_id THEN Failed(gs)
        ELSE IF ~has_combat_unit(fh) THEN Failed(gs)
        ELSE IF ~fh.can_move THEN Failed(gs)
        ELSE IF ~th.is_land THEN Failed(gs)
        ELSE IF source = 0 THEN Failed(gs)
        ELSE LET st == gs.territories[source]
                 is_adjacent ==
                     (\E i \in DOMAIN st.hexes :
                          Contains(get_neighbors(g, st.hexes[i]), to_hex))
                     \/ contains(st, to_hex)
             IN  IF ~is_adjacent /\ ~contains(st, to_hex) THEN Failed(gs)
                 ELSE IF th.owner = player_id /\ contains(st, to_hex)
                 THEN move_within(gs, from_hex, to_hex)
                 ELSE IF th.owner # player_id
                 THEN move_attack(gs, source, from_hex, to_hex)
                 ELSE Failed(gs)

\* A tree growth that takes its snapshot after the graves have turned into
\* trees.
grow_trees_cascading(g, player_id) ==
    LET land == {p \in DOMAIN g : g[p].is_land}
        g1 == [p \in DOMAIN g |->
                  IF p \in land /\ g[p].owner = player_id /\ g[p].grave
                  THEN [g[p] EXCEPT !.unit = IF is_coastal(g, p) THEN TREE_PALM
                                             ELSE TREE_PINE,
                                    !.grave = FALSE]
                  ELSE g[p]]
        original_palms == {p \in land : g1[p].unit = TREE_PALM}
        original_pines == {p \in land : g1[p].unit = TREE_PINE}
        truly_empty(p) == p \in land /\ g1[p].owner = player_id
                          /\ g1[p].unit = NONE /\ ~g1[p].has_capital
                          /\ ~g1[p].has_castle /\ ~g1[p].grave
        near(p, S) == LET nb == get_neighbors(g, p)
                      IN  Cardinality({i \in DOMAIN nb : nb[i] \in S})
    IN  [p \in DOMAIN g |->
            IF ~truly_empty(p) THEN g1[p]
            ELSE IF is_coastal(g, p)
            THEN IF near(p, original_palms) >= 1
                 THEN [g1[p] EXCEPT !.unit = TREE_PALM] ELSE g1[p]
            ELSE IF near(p, original_pines) >= 2
                 THEN [g1[p] EXCEPT !.unit = TREE_PINE] ELSE g1[p]]

\* A tree growth that spreads the trees and leaves the graves as they are.
grow_trees_keeps_graves(g, player_id) ==
    LET land == {p \in DOMAIN g : g[p].is_land}
        original_palms == {p \in land : g[p].unit = TREE_PALM}
        original_pines == {p \in land : g[p].unit = TREE_PINE}
        truly_empty(p) == p \in land /\ g[p].owner = player_id
                          /\ g[p].unit = NONE /\ ~g[p].has_capital
                          /\ ~g[p].has_castle /\ ~g[p].grave
        near(p, S) == LET nb == get_neighbors(g, p)
                      IN  Cardinality({i \in DOMAIN nb : nb[i] \in S})
    IN  [p \in DOMAIN g |->
            IF ~truly_empty(p) THEN g[p]
            ELSE IF is_coastal(g, p)
            THEN IF near(p, original_palms) >= 1
                 THEN [g[p] EXCEPT !.unit = TREE_PALM] ELSE g[p]
            ELSE IF near(p, original_pines) >= 2
                 THEN [g[p] EXCEPT !.unit = TREE_PINE] ELSE g[p]]

\* GameState._grow_trees
grow_trees(g, player_id) ==
    LET land == {p \in DOMAIN g : g[p].is_land}
        original_palms == {p \in land : g[p].unit = TREE_PALM}
        original_pines == {p \in land : g[p].unit = TREE_PINE}
        g1 == [p \in DOMAIN g |->
                  IF p \in land /\ g[p].owner = player_id /\ g[p].grave
                  THEN [g[p] EXCEPT !.unit = IF is_coastal(g, p) THEN TREE_PALM
                                             ELSE TREE_PINE,
                                    !.grave = FALSE]
                  ELSE g[p]]
        truly_empty(p) == p \in land /\ g1[p].owner = player_id
                          /\ g1[p].unit = NONE /\ ~g1[p].has_capital
                          /\ ~g1[p].has_castle /\ ~g1[p].grave
        near(p, S) == LET nb == get_neighbors(g, p)
                      IN  Cardinality({i \in DOMAIN nb : nb[i] \in S})
    IN  [p \in DOMAIN g |->
            IF ~truly_empty(p) THEN g1[p]
            ELSE IF is_coastal(g, p)
            THEN IF near(p, original_palms) >= 1
                 THEN [g1[p] EXCEPT !.unit = TREE_PALM] ELSE g1[p]
            ELSE IF near(p, original_pines) >= 2
                 THEN [g1[p] EXCEPT !.unit = TREE_PINE] ELSE g1[p]]

\* A victory check that ends the game only when nobody is left alive.
check_victory_without_survivor(gs) ==
    LET al == {p \in DOMAIN gs.alive : gs.alive[p]}
    IN  IF Cardinality(al) < 1
        THEN [gs EXCEPT !.game_over = TRUE, !.winner = NoWinner]
        ELSE gs

\* GameState._check_victory
check_victory(gs) ==
    LET al == {p \in DOMAIN gs.alive : gs.alive[p]}
    IN  IF Cardinality(al) <= 1
        THEN [gs EXCEPT !.game_over = TRUE,
                        !.winner = IF al = {} THEN NoWinner ELSE CHOOSE p \in al : TRUE]
        ELSE gs

\* The collect_income loop of start_turn over the player's territories.
RECURSIVE collect_all(_, _, _)
collect_all(g, terrs, idxs) ==
    IF idxs = <<>> THEN [grid |-> g, territories |-> terrs]
    ELSE LET r == collect_income(g, terrs[Head(idxs)])
         IN  collect_all(r.grid, [terrs EXCEPT ![Head(idxs)] = r.terr], Tail(idxs))

\* The grid start_turn hands to _grow_trees: can_move reset and, after the
\* first turn, income collected (lines 273-283).
grid_before_growth(gs) ==
    LET pid == gs.current_player_idx
        g1 == [p \in DOMAIN gs.grid |->
                  IF gs.grid[p].is_land /\ gs.grid[p].owner = pid
                     /\ has_combat_unit(gs.grid[p])
                  THEN [gs.grid[p] EXCEPT !.can_move = TRUE] ELSE gs.grid[p]]
    IN  IF gs.turn_number > 0
        THEN collect_all(g1, gs.territories, get_player_territories(gs, pid)).grid
        ELSE g1

\* start_turn for a player who is alive, were it to collect income on the
\* very first turn too.
start_turn_alive_from_turn_0(gs) ==
    LET pid == gs.current_player_idx
        g1 == [p \in DOMAIN gs.grid |->
                  IF gs.grid[p].is_land /\ gs.grid[p].owner = pid
                     /\ has_combat_unit(gs.grid[p])
                  THEN [gs.grid[p] EXCEPT !.can_move = TRUE] ELSE gs.grid[p]]
        c == collect_all(g1, gs.territories, get_player_territories(gs, pid))
        g2 == grow_trees(c.grid, pid)
        r == refresh_territories(g2, c.territories, NoAvoid, NoHex)
        gs1 == [gs EXCEPT !.grid = r.grid, !.territories = r.territories]
        gs2 == IF get_player_territories(gs1, pid) = <<>>
               THEN [gs1 EXCEPT !.alive[pid] = FALSE] ELSE gs1
    IN  check_victory(gs2)

\* start_turn for a player who is alive, were it to let the combat units of
\* every player move again.
start_turn_alive_moves_everyone(gs) ==
    LET pid == gs.current_player_idx
        g1 == [p \in DOMAIN gs.grid |->
                  IF gs.grid[p].is_land /\ has_combat_unit(gs.grid[p])
                  THEN [gs.grid[p] EXCEPT !.can_move = TRUE] ELSE gs.grid[p]]
        c == IF gs.turn_number > 0
             THEN collect_all(g1, gs.territories, get_player_territories(gs, pid))
             ELSE [grid |-> g1, territories |-> gs.territories]
        g2 == grow_trees(c.grid, pid)
        r == refresh_territories(g2, c.territories, NoAvoid, NoHex)
        gs1 == [gs EXCEPT !.grid = r.grid, !.territories = r.territories]
        gs2 == IF get_player_territories(gs1, pid) = <<>>
               THEN [gs1 EXCEPT !.alive[pid] = FALSE] ELSE gs1
    IN  check_victory(gs2)

\* start_turn for a player who is alive (lines 273-295).
start_turn_alive(gs) ==
    LET pid == gs.current_player_idx
        g1 == [p \in DOMAIN gs.grid |->
                  IF gs.grid[p].is_land /\ gs.grid[p].owner = pid
                     /\ has_combat_unit(gs.grid[p])
                  THEN [gs.grid[p] EXCEPT !.can_move = TRUE] ELSE gs.grid[p]]
        c == IF gs.turn_number > 0
             THEN collect_all(g1, gs.territories, get_player_territories(gs, pid))
             ELSE [grid |-> g1, territories |-> gs.territories]
        g2 == grow_trees(c.grid, pid)
        r == refresh_territories(g2, c.territories, NoAvoid, NoHex)
        gs1 == [gs EXCEPT !.grid = r.grid, !.territories = r.territories]
        gs2 == IF get_player_territories(gs1, pid) = <<>>
               THEN [gs1 EXCEPT !.alive[pid] = FALSE] ELSE gs1
    IN  check_victory(gs2)

\* start_turn and advance_turn call each other; skipped counts the dead
\* players passed over in a row (with every player dead the code would
\* recurse without end; the model stops after one round).  The players
\* are the domain of gs.alive, so len(self.players) is its size.
RECURSIVE turn_from(_, _)
turn_from(gs, skipped) ==
    LET n == Cardinality(DOMAIN gs.alive)
        idx == (gs.current_player_idx + 1) % n
        gs1 == [gs EXCEPT !.current_player_idx = idx,
                          !.turn_number = IF idx = 0 THEN @ + 1 ELSE @]
    IN  IF gs1.alive[idx] THEN start_turn_alive(gs1)
        ELSE IF skipped >= n THEN gs1
        ELSE turn_from(gs1, skipped + 1)

\* _advance_turn, were it to start the next turn for the same player.
advance_turn_same_player(gs) == start_turn_alive(gs)

advance_turn(gs) == turn_from(gs, 0)

start_turn(gs) ==
    IF ~gs.alive[gs.current_player_idx] THEN advance_turn(gs)
    ELSE start_turn_alive(gs)

end_turn(gs) == advance_turn(gs)

-----------------------------------------------------------------------------
(* engine/actions.py: the action model.  An Action is a record of its four  *)
(* slots; None is NoHex for a position and NoIdx for a territory index.     *)

BUY_PEASANT == "BUY_PEASANT"
BUY_CASTLE == "BUY_CASTLE"
MOVE_UNIT == "MOVE_UNIT"
END_TURN == "END_TURN"

NoIdx == -1

Action(type, from_pos, to_pos, territory_idx) ==
    [type |-> type, from_pos |-> from_pos, to_pos |-> to_pos,
     territory_idx |-> territory_idx]

\* [f(s[1]), ..., f(s[n])] for the action built from each position of s.
BuyActions(type, s, t_idx) ==
    [k \in DOMAIN s |-> Action(type, NoHex, s[k], t_idx)]

MoveActions(from_pos, s) ==
    [k \in DOMAIN s |-> Action(MOVE_UNIT, from_pos, s[k], NoIdx)]

\* Territory.movable_units, were it to list the units that have moved too.
movable_units_with_moved(g, t) ==
    SelectSeq(t.hexes, LAMBDA p : has_combat_unit(g[p]))

\* Territory.movable_units
movable_units(g, t) ==
    SelectSeq(t.hexes, LAMBDA p : has_combat_unit(g[p]) /\ g[p].can_move)

\* Territory.neighboring_hexes: the code returns list(set), whose order it
\* does not fix; the list is given here in grid order.
neighboring_hexes(g, t) ==
    SelectSeq(HexOrder(g), LAMBDA q :
        /\ ~contains(t, q)
        /\ g[q].is_land
        /\ \E k \in DOMAIN t.hexes : Contains(get_neighbors(g, t.hexes[k]), q))

\* The body of the loop of get_legal_actions for the player's t_idx-th
\* territory (t_idx counts from 0).
legal_in_territory(gs, t_idx) ==
    LET g == gs.grid
        player_id == gs.current_player_idx
        territory == gs.territories[get_player_territories(gs, player_id)[t_idx + 1]]
        peasant_ok(p) ==
            \/ is_empty_land(g[p]) \/ g[p].grave \/ has_tree(g[p])
            \/ /\ has_combat_unit(g[p])
               /\ combine_units(g[p].unit, PEASANT) # NoUnit
        castle_ok(p) ==
            /\ is_empty_land(g[p]) \/ g[p].grave
            /\ ~g[p].has_castle /\ ~g[p].has_capital
        buys == IF territory.gold >= PEASANT_COST
                THEN BuyActions(BUY_PEASANT, SelectSeq(territory.hexes, peasant_ok), t_idx)
                ELSE <<>>
        castles == IF territory.gold >= CASTLE_COST
                   THEN BuyActions(BUY_CASTLE, SelectSeq(territory.hexes, castle_ok), t_idx)
                   ELSE <<>>
        within_ok(h, p) ==
            /\ p # h
            /\ \/ is_empty_land(g[p]) \/ g[p].grave
               \/ has_tree(g[p])
               \/ /\ has_combat_unit(g[p])
                  /\ combine_units(g[p].unit, g[h].unit) # NoUnit
        attack_ok(h, q) ==
            /\ g[q].owner # player_id
            /\ unit_power(g[h].unit) > get_relative_power(g, q)
        units == movable_units(g, territory)
        moves == Flatten([k \in DOMAIN units |->
                     MoveActions(units[k],
                         SelectSeq(territory.hexes, LAMBDA p : within_ok(units[k], p))
                         \o SelectSeq(neighboring_hexes(g, territory),
                                      LAMBDA q : attack_ok(units[k], q)))])
    IN  buys \o castles \o moves

get_legal_actions(gs) ==
    LET n == Len(get_player_territories(gs, gs.current_player_idx))
    IN  Flatten([k \in 1..n |-> legal_in_territory(gs, k - 1)])
            \o <<Action(END_TURN, NoHex, NoHex, NoIdx)>>

\* grid.get(*pos) is None for a position off the grid.
apply_action(gs, action) ==
    LET player_territories == get_player_territories(gs, gs.current_player_idx)
        off_grid(p) == p \notin DOMAIN gs.grid
    IN  IF action.type = END_TURN THEN Done(end_turn(gs))
        ELSE IF action.type = BUY_PEASANT
        THEN IF action.territory_idx >= Len(player_territories) THEN Failed(gs)
             ELSE IF off_grid(action.to_pos) THEN Failed(gs)
             ELSE buy_peasant(gs, player_territories[action.territory_idx + 1],
                              action.to_pos)
        ELSE IF action.type = BUY_CASTLE
        THEN IF action.territory_idx >= Len(player_territories) THEN Failed(gs)
             ELSE IF off_grid(action.to_pos) THEN Failed(gs)
             ELSE buy_castle(gs, player_territories[action.territory_idx + 1],
                             action.to_pos)
        ELSE IF action.type = MOVE_UNIT
        THEN IF off_grid(action.from_pos) \/ off_grid(action.to_pos) THEN Failed(gs)
             ELSE move_unit(gs, action.from_pos, action.to_pos)
        ELSE Failed(gs)

-----------------------------------------------------------------------------
(* ai/alphabeta_ai.py: the reduced action model *)

ACT_CAPTURE == 0
ACT_MOVE == 1
ACT_END_TURN == 2

INF == 100000

\* An action tuple (action_type, from_pos, to_pos).
Act(type, f, t) == [type |-> type, from |-> f, to |-> t]

EndTurnAct == Act(ACT_END_TURN, NoHex, NoHex)

\* get_search_actions, were it to list a capture also against a relative
\* power equal to the unit's.
get_search_actions_on_equal_power(g, player_id) ==
    LET order == HexOrder(g)
        movable(h) == /\ g[h].is_land /\ g[h].owner = player_id
                      /\ has_combat_unit(g[h]) /\ g[h].can_move
        pairs == Flatten([i \in DOMAIN order |->
                     IF movable(order[i])
                     THEN LET nb == SelectSeq(get_neighbors(g, order[i]),
                                              LAMBDA n : g[n].is_land)
                          IN  [k \in DOMAIN nb |-> <<order[i], nb[k]>>]
                     ELSE <<>>])
        cap == SelectSeq(pairs, LAMBDA pr :
                   /\ g[pr[2]].owner # player_id
                   /\ unit_power(g[pr[1]].unit) >= get_relative_power(g, pr[2]))
        mov == SelectSeq(pairs, LAMBDA pr :
                   /\ g[pr[2]].owner = player_id
                   /\ g[pr[2]].unit = NONE /\ ~g[pr[2]].has_capital
                   /\ ~g[pr[2]].has_castle /\ ~g[pr[2]].grave)
        captures == [k \in DOMAIN cap |-> Act(ACT_CAPTURE, cap[k][1], cap[k][2])]
        moves == [k \in DOMAIN mov |-> Act(ACT_MOVE, mov[k][1], mov[k][2])]
    IN  captures \o moves \o <<EndTurnAct>>

get_search_actions(g, player_id) ==
    LET order == HexOrder(g)
        movable(h) == /\ g[h].is_land /\ g[h].owner = player_id
                      /\ has_combat_unit(g[h]) /\ g[h].can_move
        pairs == Flatten([i \in DOMAIN order |->
                     IF movable(order[i])
                     THEN LET nb == SelectSeq(get_neighbors(g, order[i]),
                                              LAMBDA n : g[n].is_land)
                          IN  [k \in DOMAIN nb |-> <<order[i], nb[k]>>]
                     ELSE <<>>])
        cap == SelectSeq(pairs, LAMBDA pr :
                   /\ g[pr[2]].owner # player_id
                   /\ unit_power(g[pr[1]].unit) > get_relative_power(g, pr[2]))
        mov == SelectSeq(pairs, LAMBDA pr :
                   /\ g[pr[2]].owner = player_id
                   /\ g[pr[2]].unit = NONE /\ ~g[pr[2]].has_capital
                   /\ ~g[pr[2]].has_castle /\ ~g[pr[2]].grave)
        captures == [k \in DOMAIN cap |-> Act(ACT_CAPTURE, cap[k][1], cap[k][2])]
        moves == [k \in DOMAIN mov |-> Act(ACT_MOVE, mov[k][1], mov[k][2])]
    IN  captures \o moves \o <<EndTurnAct>>

\* An undo tuple.  The code's tuples hold only the fields of their action
\* type; here the fields a type does not save stay at these defaults and
\* fast_undo never reads them.
NoUndo ==
    [type |-> ACT_END_TURN, fpos |-> NoHex, tpos |-> NoHex, fu |-> NONE,
     fcm |-> FALSE, tow |-> -1, tu |-> NONE, tcap |-> FALSE, tcas |-> FALSE,
     tgr |-> FALSE, tcm |-> FALSE, saved |-> <<>>]

\* An END_TURN that records the flags after it has set them.
saved_can_move_after(g, touched) == [p \in touched |-> TRUE]

\* The can_move flags END_TURN saves: those of the cells it is about to touch.
saved_can_move(g, touched) == [p \in touched |-> g[p].can_move]

\* A fast_apply whose capture leaves the capital flag of the target cell.
fast_apply_keeps_capital(g, player_idx, num_players, action) ==
    LET fh == g[action.from]
        th == g[action.to]
        nidx == (player_idx + 1) % num_players
        touched == {p \in DOMAIN g : g[p].owner = nidx /\ has_combat_unit(g[p])}
    IN  IF action.type = ACT_CAPTURE
        THEN [idx |-> player_idx,
              grid |-> [g EXCEPT ![action.to] =
                                     [th EXCEPT !.owner = fh.owner, !.unit = fh.unit,
                                                !.has_castle = FALSE,
                                                !.grave = FALSE, !.can_move = FALSE],
                                 ![action.from] =
                                     [fh EXCEPT !.unit = NONE, !.can_move = FALSE]],
              undo |-> [NoUndo EXCEPT !.type = ACT_CAPTURE, !.fpos = action.from,
                                      !.tpos = action.to, !.fu = fh.unit,
                                      !.fcm = fh.can_move, !.tow = th.owner,
                                      !.tu = th.unit, !.tcap = th.has_capital,
                                      !.tcas = th.has_castle, !.tgr = th.grave,
                                      !.tcm = th.can_move]]
        ELSE IF action.type = ACT_MOVE
        THEN [idx |-> player_idx,
              grid |-> [g EXCEPT ![action.to] =
                                     [th EXCEPT !.unit = fh.unit, !.can_move = TRUE],
                                 ![action.from] =
                                     [fh EXCEPT !.unit = NONE, !.can_move = FALSE]],
              undo |-> [NoUndo EXCEPT !.type = ACT_MOVE, !.fpos = action.from,
                                      !.tpos = action.to, !.fu = fh.unit,
                                      !.fcm = fh.can_move, !.tu = th.unit,
                                      !.tcm = th.can_move]]
        ELSE [idx |-> nidx,
              grid |-> [p \in DOMAIN g |->
                           IF p \in touched THEN [g[p] EXCEPT !.can_move = TRUE]
                           ELSE g[p]],
              undo |-> [NoUndo EXCEPT !.saved = saved_can_move(g, touched)]]

\* Returns [idx, grid, undo]: the new player index, the mutated grid and the
\* undo tuple.
fast_apply(g, player_idx, num_players, action) ==
    LET fh == g[action.from]
        th == g[action.to]
        nidx == (player_idx + 1) % num_players
        touched == {p \in DOMAIN g : g[p].owner = nidx /\ has_combat_unit(g[p])}
    IN  IF action.type = ACT_CAPTURE
        THEN [idx |-> player_idx,
              grid |-> [g EXCEPT ![action.to] =
                                     [th EXCEPT !.owner = fh.owner, !.unit = fh.unit,
                                                !.has_capital = FALSE,
                                                !.has_castle = FALSE,
                                                !.grave = FALSE, !.can_move = FALSE],
                                 ![action.from] =
                                     [fh EXCEPT !.unit = NONE, !.can_move = FALSE]],
              undo |-> [NoUndo EXCEPT !.type = ACT_CAPTURE, !.fpos = action.from,
                                      !.tpos = action.to, !.fu = fh.unit,
                                      !.fcm = fh.can_move, !.tow = th.owner,
                                      !.tu = th.unit, !.tcap = th.has_capital,
                                      !.tcas = th.has_castle, !.tgr = th.grave,
                                      !.tcm = th.can_move]]
        ELSE IF action.type = ACT_MOVE
        THEN [idx |-> player_idx,
              grid |-> [g EXCEPT ![action.to] =
                                     [th EXCEPT !.unit = fh.unit, !.can_move = TRUE],
                                 ![action.from] =
                                     [fh EXCEPT !.unit = NONE, !.can_move = FALSE]],
              undo |-> [NoUndo EXCEPT !.type = ACT_MOVE, !.fpos = action.from,
                                      !.tpos = action.to, !.fu = fh.unit,
                                      !.fcm = fh.can_move, !.tu = th.unit,
                                      !.tcm = th.can_move]]
        ELSE [idx |-> nidx,
              grid |-> [p \in DOMAIN g |->
                           IF p \in touched THEN [g[p] EXCEPT !.can_move = TRUE]
                           ELSE g[p]],
              undo |-> [NoUndo EXCEPT !.saved = saved_can_move(g, touched)]]

\* An undo of a capture that does not put the capital and castle back.
fast_undo_forgets_structures(g, undo) ==
    IF undo.type = ACT_CAPTURE
    THEN [g EXCEPT ![undo.fpos] = [@ EXCEPT !.unit = undo.fu, !.can_move = undo.fcm],
                   ![undo.tpos] = [@ EXCEPT !.owner = undo.tow, !.unit = undo.tu,
                                            !.grave = undo.tgr,
                                            !.can_move = undo.tcm]]
    ELSE IF undo.type = ACT_MOVE
    THEN [g EXCEPT ![undo.fpos] = [@ EXCEPT !.unit = undo.fu, !.can_move = undo.fcm],
                   ![undo.tpos] = [@ EXCEPT !.unit = undo.tu, !.can_move = undo.tcm]]
    ELSE [p \in DOMAIN g |->
             IF p \in DOMAIN undo.saved THEN [g[p] EXCEPT !.can_move = undo.saved[p]]
             ELSE g[p]]

fast_undo(g, undo) ==
    IF undo.type = ACT_CAPTURE
    THEN [g EXCEPT ![undo.fpos] = [@ EXCEPT !.unit = undo.fu, !.can_move = undo.fcm],
                   ![undo.tpos] = [@ EXCEPT !.owner = undo.tow, !.unit = undo.tu,
                                            !.has_capital = undo.tcap,
                                            !.has_castle = undo.tcas,
                                            !.grave = undo.tgr,
                                            !.can_move = undo.tcm]]
    ELSE IF undo.type = ACT_MOVE
    THEN [g EXCEPT ![undo.fpos] = [@ EXCEPT !.unit = undo.fu, !.can_move = undo.fcm],
                   ![undo.tpos] = [@ EXCEPT !.unit = undo.tu, !.can_move = undo.tcm]]
    ELSE [p \in DOMAIN g |->
             IF p \in DOMAIN undo.saved THEN [g[p] EXCEPT !.can_move = undo.saved[p]]
             ELSE g[p]]

eval_hex_count(g, player_id) ==
    LET my == Cardinality({p \in DOMAIN g : g[p].is_land /\ g[p].owner = player_id})
        opp == Cardinality({p \in DOMAIN g : /\ g[p].is_land
                                             /\ g[p].owner # player_id
                                             /\ g[p].owner >= 0})
    IN  my - opp

-----------------------------------------------------------------------------
(* Map setup.  A map is [h, own, trees]: the grid height, the owner of each *)
(* cell in HexOrder (Water for a water cell, -1 neutral) and the indexes of *)
(* the cells that drew a tree.                                              *)

Water == -2

MapPositions(m) ==
    {<<c, r>> : c \in 0..((Len(m.own) \div m.h) - 1), r \in 0..(m.h - 1)}

MapIndex(m, p) == p[1] * m.h + p[2] + 1

\* setup_random_map after the random draws: land and owners as drawn, a
\* drawn tree is a palm on a coastal cell and a pine inland, territories
\* recomputed, every territory given 10 gold.
setup_random_map(m) ==
    LET g0 == [p \in MapPositions(m) |->
                  IF m.own[MapIndex(m, p)] = Water THEN NewHex(FALSE)
                  ELSE [NewHex(TRUE) EXCEPT !.owner = m.own[MapIndex(m, p)]]]
        g1 == [p \in MapPositions(m) |->
                  IF g0[p].is_land /\ MapIndex(m, p) \in m.trees
                  THEN [g0[p] EXCEPT !.unit = IF is_coastal(g0, p) THEN TREE_PALM
                                              ELSE TREE_PINE]
                  ELSE g0[p]]
        r == refresh_territories(g1, <<>>, NoAvoid, NoHex)
    IN  [grid |-> r.grid,
         territories |-> [i \in DOMAIN r.territories |->
                             [r.territories[i] EXCEPT !.gold = 10]],
         current_player_idx |-> 0, turn_number |-> 0,
         alive |-> [p \in Players |-> TRUE],
         game_over |-> FALSE, winner |-> NoWinner]

\* The maps the model sets up (3 or 4 columns by 2 rows).  On the first and
\* the last, player 0 holds two territories that a capture of the neutral
\* cell between them joins: two of two cells, and one of two with one of
\* three.
SetupMaps ==
    { [h |-> 2, own |-> <<0, 0, -1, 1, 0, 0>>, trees |-> {}],
      [h |-> 2, own |-> <<0, 0, -1, 1, 0, 1>>, trees |-> {}],
      [h |-> 2, own |-> <<0, 1, 0, 1, -1, 1>>, trees |-> {3}],
      [h |-> 2, own |-> <<1, 1, 0, 0, Water, 1>>, trees |-> {2}],
      [h |-> 2, own |-> <<0, 0, -1, 1, 0, 0, 0, Water>>, trees |-> {}] }

MaxTurn == 3    \* end_turn is not taken once turn_number has reached it

-----------------------------------------------------------------------------
(* ai/alphabeta_ai.py: the search, one fast_apply or fast_undo per step.    *)
(* The stack holds the loop of search_best_action / search_at_depth at the  *)
(* bottom (kind "root") and above it one frame per alphabeta call that is   *)
(* inside its loop (kind "max" or "min").  search.snap and search.game are  *)
(* the grid snapshot and the game state at the start of the call, and       *)
(* search.raised_at the number of actions applied and not yet undone when   *)
(* the timeout flag was raised (0: it was not); search.passes lists, for     *)
(* every pass of the root loop that has ended, its depth, the timeout flag  *)
(* and the locals d_best and d_score it ended with.  These four are history. *)

MaxDepth == 5      \* the greatest depth a search is asked for

CheckEvery == 3    \* alphabeta reads the clock every 4096th node; the model
                   \* scales that period down to this many nodes

NoRet == [set |-> FALSE, value |-> 0]

Returned(v) == [set |-> TRUE, value |-> v]

NoSearchState ==
    [pc |-> "idle", mode |-> "id", player |-> 0, max_depth |-> 0, depth |-> 0,
     best_action |-> EndTurnAct, best_score |-> -INF, depth_reached |-> 0,
     timed_out |-> FALSE, expired |-> FALSE, nodes |-> 0,
     snap |-> <<>>, game |-> <<>>, raised_at |-> 0, passes |-> <<>>]

NoSearch ==
    /\ search = NoSearchState
    /\ stack = <<>>
    /\ ret = NoRet
    /\ applied = <<>>
    /\ lifo_ok = TRUE

\* No take_turn is running.  ops and last are history: the GameState
\* operations the call has made so far, and the game state the latest of them
\* (or, before the first, the caller) left.
NoTurn ==
    [pc |-> "idle", pid |-> 0, i |-> 0, consecutive_moves |-> 0,
     actions_taken |-> 0, ops |-> <<>>, last |-> <<>>]

Frame(kind, pidx, depth, alpha, beta, value, actions) ==
    [kind |-> kind, pidx |-> pidx, depth |-> depth, alpha |-> alpha,
     beta |-> beta, value |-> value, best |-> EndTurnAct,
     actions |-> actions, i |-> 1, undo |-> NoUndo]

\* The locals of one pass of the root loop: actions, d_best, d_score, alpha.
RootFrame(g, player_id, depth) ==
    Frame("root", player_id, depth, -INF, INF, -INF,
          get_search_actions(g, player_id))

\* _snapshot: the six mutable fields of every cell.
snapshot(g) ==
    [p \in DOMAIN g |-> <<g[p].owner, g[p].unit, g[p].has_capital,
                          g[p].has_castle, g[p].grave, g[p].can_move>>]

\* alphabeta up to its loop, were a node to maximise at every second depth.
alphabeta_enter_by_parity(g, pidx, max_pid, depth, alpha, beta, nodes, timed_out, passed) ==
    LET n == nodes + 1
        is_max == depth % 2 = 1
    IN  IF n % CheckEvery = 0 /\ passed
        THEN [nodes |-> n, timed_out |-> TRUE, ret |-> Returned(0), push |-> <<>>]
        ELSE IF timed_out
        THEN [nodes |-> n, timed_out |-> TRUE, ret |-> Returned(0), push |-> <<>>]
        ELSE IF depth <= 0
        THEN [nodes |-> n, timed_out |-> FALSE,
              ret |-> Returned(eval_hex_count(g, max_pid)), push |-> <<>>]
        ELSE [nodes |-> n, timed_out |-> FALSE, ret |-> NoRet,
              push |-> <<Frame(IF is_max THEN "max" ELSE "min", pidx, depth,
                               alpha, beta, IF is_max THEN -INF ELSE INF,
                               get_search_actions(g, pidx))>>]

\* alphabeta from its entry to the start of its loop.  passed is what the
\* clock says (deadline passed or not) if this node reads it.
alphabeta_enter(g, pidx, max_pid, depth, alpha, beta, nodes, timed_out, passed) ==
    LET n == nodes + 1
        is_max == pidx = max_pid
    IN  IF n % CheckEvery = 0 /\ passed
        THEN [nodes |-> n, timed_out |-> TRUE, ret |-> Returned(0), push |-> <<>>]
        ELSE IF timed_out
        THEN [nodes |-> n, timed_out |-> TRUE, ret |-> Returned(0), push |-> <<>>]
        ELSE IF depth <= 0
        THEN [nodes |-> n, timed_out |-> FALSE,
              ret |-> Returned(eval_hex_count(g, max_pid)), push |-> <<>>]
        ELSE [nodes |-> n, timed_out |-> FALSE, ret |-> NoRet,
              push |-> <<Frame(IF is_max THEN "max" ELSE "min", pidx, depth,
                               alpha, beta, IF is_max THEN -INF ELSE INF,
                               get_search_actions(g, pidx))>>]

\* A frame that returns at once, without fast_undo, when it finds the
\* timeout flag raised.
unwind_unless_timed_out(g, f, timed_out) ==
    IF timed_out THEN [grid |-> g, undone |-> <<>>]
    ELSE [grid |-> fast_undo(g, f.undo), undone |-> <<f.undo>>]

\* The statement after the recursive call: fast_undo(grid, undo).  Returns
\* the grid and the undo tuples that were passed to fast_undo.
unwind(g, f, timed_out) ==
    [grid |-> fast_undo(g, f.undo), undone |-> <<f.undo>>]

\* A cutoff taken while the window is still two wide.
cutoff_too_early(alpha, beta) == alpha + 2 >= beta

cutoff(alpha, beta) == alpha >= beta

\* The rest of the loop body, after fast_undo, for the value v the call
\* returned: the frame as it goes into the next pass, whether the loop is
\* left, and the value returned if it is.
loop_resume(f, v, timed_out) ==
    IF timed_out
    THEN [frame |-> f, exit |-> TRUE, value |-> 0]
    ELSE IF f.kind = "root"
    THEN LET better == v > f.value
             f1 == [f EXCEPT !.value = IF better THEN v ELSE @,
                             !.best = IF better THEN f.actions[f.i] ELSE @,
                             !.alpha = IF v > @ THEN v ELSE @,
                             !.i = @ + 1]
         IN  [frame |-> f1, exit |-> f.i = Len(f.actions), value |-> f1.value]
    ELSE IF f.kind = "max"
    THEN LET value == IF v > f.value THEN v ELSE f.value
             alpha == IF value > f.alpha THEN value ELSE f.alpha
         IN  [frame |-> [f EXCEPT !.value = value, !.alpha = alpha, !.i = @ + 1],
              exit |-> cutoff(alpha, f.beta) \/ f.i = Len(f.actions),
              value |-> value]
    ELSE LET value == IF v < f.value THEN v ELSE f.value
             beta == IF value < f.beta THEN value ELSE f.beta
         IN  [frame |-> [f EXCEPT !.value = value, !.beta = beta, !.i = @ + 1],
              exit |-> cutoff(f.alpha, beta) \/ f.i = Len(f.actions),
              value |-> value]

-----------------------------------------------------------------------------
(* The game: main.py and arena.py set the map up, call start_turn once and  *)
(* then issue buy_peasant, buy_castle, move_unit and end_turn.              *)

SetGame(gs, ph) ==
    /\ grid' = gs.grid
    /\ territories' = gs.territories
    /\ current_player_idx' = gs.current_player_idx
    /\ turn_number' = gs.turn_number
    /\ alive' = gs.alive
    /\ game_over' = gs.game_over
    /\ winner' = gs.winner
    /\ phase' = ph

\* A GameState operation made outside a search and outside take_turn.
Install(gs, ph) ==
    /\ SetGame(gs, ph)
    /\ UNCHANGED svars
    /\ UNCHANGED ai

Init ==
    \E m \in SetupMaps :
        LET gs == setup_random_map(m)
        IN  /\ grid = gs.grid
            /\ territories = gs.territories
            /\ current_player_idx = gs.current_player_idx
            /\ turn_number = gs.turn_number
            /\ alive = gs.alive
            /\ game_over = gs.game_over
            /\ winner = gs.winner
            /\ phase = "start"
            /\ NoSearch
            /\ ai = NoTurn

StartTurn ==
    /\ phase = "start"
    /\ Install(start_turn(GS), "play")

BuyPeasant ==
    /\ phase = "play"
    /\ \E ti \in DOMAIN territories, p \in DOMAIN grid :
           LET r == buy_peasant(GS, ti, p)
           IN  r.ok /\ Install(r.gs, "play")

BuyCastle ==
    /\ phase = "play"
    /\ \E ti \in DOMAIN territories, p \in DOMAIN grid :
           LET r == buy_castle(GS, ti, p)
           IN  r.ok /\ Install(r.gs, "play")

MoveUnit ==
    /\ phase = "play"
    /\ \E f \in DOMAIN grid, t \in DOMAIN grid :
           LET r == move_unit(GS, f, t)
           IN  r.ok /\ Install(r.gs, "play")

EndTurn ==
    /\ phase = "play"
    /\ turn_number < MaxTurn
    /\ Install(end_turn(GS), "play")

Next == StartTurn \/ BuyPeasant \/ BuyCastle \/ MoveUnit \/ EndTurn

Spec == Init /\ [][Next]_vars

-----------------------------------------------------------------------------
(* Positions: a game some turns in.  A position is a map [h, own, castles,  *)
(* graves] with a unit drawn for every owned cell; the territories and      *)
(* capitals are those the engine derives for it, every territory holds the  *)
(* drawn gold, and start_turn of the player to move is due.                 *)

PosMaps ==
    { [h |-> 2, own |-> <<0, 0, 0, 1>>, castles |-> {}, graves |-> {}],
      [h |-> 2, own |-> <<0, 0, 1, 1>>, castles |-> {}, graves |-> {}] }

UnitChoices(owner) ==
    IF owner = 0 THEN {NONE, TREE_PALM, PEASANT, SPEARMAN, KNIGHT, BARON}
    ELSE IF owner = 1 THEN {NONE, PEASANT}
    ELSE {NONE}

GoldChoices == {0, 5, 12, 80}

Position(m, units, gold) ==
    LET g0 == [p \in MapPositions(m) |->
                  IF m.own[MapIndex(m, p)] = Water THEN NewHex(FALSE)
                  ELSE [NewHex(TRUE) EXCEPT !.owner = m.own[MapIndex(m, p)],
                                            !.unit = units[MapIndex(m, p)],
                                            !.has_castle = MapIndex(m, p) \in m.castles,
                                            !.grave = MapIndex(m, p) \in m.graves]]
        r == refresh_territories(g0, <<>>, NoAvoid, NoHex)
    IN  [grid |-> r.grid,
         territories |-> [i \in DOMAIN r.territories |->
                             [r.territories[i] EXCEPT !.gold = gold]],
         current_player_idx |-> 0, turn_number |-> 1,
         alive |-> [p \in Players |-> TRUE],
         game_over |-> FALSE, winner |-> NoWinner]

InitPos ==
    \E m \in PosMaps, gold \in GoldChoices :
        \E units \in [DOMAIN m.own -> UNION {UnitChoices(o) : o \in Players}] :
            /\ \A i \in DOMAIN m.own : units[i] \in UnitChoices(m.own[i])
            /\ LET gs == Position(m, units, gold)
               IN  /\ grid = gs.grid
                   /\ territories = gs.territories
                   /\ current_player_idx = gs.current_player_idx
                   /\ turn_number = gs.turn_number
                   /\ alive = gs.alive
                   /\ game_over = gs.game_over
                   /\ winner = gs.winner
                   /\ phase = "start"
                   /\ NoSearch
                   /\ ai = NoTurn

NextPos == StartTurn \/ BuyPeasant \/ BuyCastle \/ MoveUnit

SpecPos == InitPos /\ [][NextPos]_vars

-----------------------------------------------------------------------------
(* Captures: positions on a board of 4 columns by 3 rows in which player 0, *)
(* holding the middle column, is about to move against two territories of   *)
(* player 1: the left column, and a chain on the right whose cells hold the *)
(* units, trees and castle drawn for them.  A map is a position map with,   *)
(* for every cell, the set its unit is drawn from.  The third map, 5        *)
(* columns by 3 rows and all land, has inland cells: player 0 holds the     *)
(* middle, with barons it cannot pay, between pines and palms of player 1   *)
(* and of nobody.                                                           *)

CaptureMaps ==
    { [h |-> 3, own |-> <<1, 1, 1, 0, 0, 0, 1, 1, 1, Water, Water, 1>>,
       castles |-> {}, graves |-> {},
       units |-> << {NONE, PEASANT}, {NONE}, {NONE, PEASANT},
                    {NONE}, {KNIGHT}, {NONE, KNIGHT},
                    {NONE, PEASANT}, {NONE, PEASANT, TREE_PALM},
                    {NONE, PEASANT, SPEARMAN, TREE_PALM},
                    {NONE}, {NONE}, {NONE, PEASANT, TREE_PALM} >>],
      [h |-> 3, own |-> <<1, 1, 1, 0, 0, 0, 1, 1, 1, Water, Water, 1>>,
       castles |-> {9}, graves |-> {},
       units |-> << {NONE}, {NONE, PEASANT}, {NONE, PEASANT},
                    {NONE}, {PEASANT, KNIGHT}, {NONE, SPEARMAN, KNIGHT},
                    {NONE, PEASANT}, {PEASANT}, {NONE},
                    {NONE}, {NONE}, {PEASANT, TREE_PALM} >>],
      [h |-> 3, own |-> <<0, -1, -1, 0, 0, -1, 0, 0, 0, 1, 1, 1, 1, 1, 1>>,
       castles |-> {}, graves |-> {},
       units |-> << {NONE}, {NONE}, {NONE},
                    {NONE, BARON}, {NONE, TREE_PINE, BARON}, {NONE, TREE_PALM},
                    {NONE}, {NONE, PEASANT}, {NONE},
                    {NONE, TREE_PALM}, {NONE, TREE_PINE}, {NONE},
                    {NONE}, {NONE}, {NONE} >>] }

CaptureGold == {40}

\* The sequences that take their i-th element from the i-th set.
RECURSIVE Draws(_)
Draws(sets) ==
    IF sets = <<>> THEN {<<>>}
    ELSE {<<u>> \o rest : u \in Head(sets), rest \in Draws(Tail(sets))}

InitCapture ==
    \E m \in CaptureMaps, gold \in CaptureGold :
        \E units \in Draws(m.units) :
            LET gs == Position(m, units, gold)
            IN  /\ grid = gs.grid
                /\ territories = gs.territories
                /\ current_player_idx = gs.current_player_idx
                /\ turn_number = gs.turn_number
                /\ alive = gs.alive
                /\ game_over = gs.game_over
                /\ winner = gs.winner
                /\ phase = "start"
                /\ NoSearch
                /\ ai = NoTurn

NextCapture == StartTurn \/ MoveUnit

SpecCapture == InitCapture /\ [][NextCapture]_vars

-----------------------------------------------------------------------------

(* Boards of every size up to MaxGridWidth x MaxGridHeight: HexGrid(width,  *)
(* height) with every cell land, the left columns held by player 0 and the  *)
(* others by player 1, and at most one peasant each, on the first and on    *)
(* the last cell.                                                           *)

MaxGridWidth == 4

MaxGridHeight == 4

GridMap(width, height) ==
    LET n == width * height
    IN  [h |-> height,
         own |-> [i \in 1..n |-> IF (i - 1) \div height < (width + 1) \div 2
                                 THEN 0 ELSE 1],
         castles |-> {}, graves |-> {},
         units |-> [i \in 1..n |-> IF i \in {1, n} THEN {NONE, PEASANT}
                                   ELSE {NONE}]]

GridMaps ==
    {GridMap(width, height) : width \in 1..MaxGridWidth, height \in 1..MaxGridHeight}

InitGrid ==
    \E m \in GridMaps, gold \in CaptureGold :
        \E units \in Draws(m.units) :
            LET gs == Position(m, units, gold)
            IN  /\ grid = gs.grid
                /\ territories = gs.territories
                /\ current_player_idx = gs.current_player_idx
                /\ turn_number = gs.turn_number
                /\ alive = gs.alive
                /\ game_over = gs.game_over
                /\ winner = gs.winner
                /\ phase = "start"
                /\ NoSearch
                /\ ai = NoTurn

NextGrid == StartTurn \/ MoveUnit

SpecGrid == InitGrid /\ [][NextGrid]_vars

(* Games of three players: GameState(num_players=3) on one row of land     *)
(* cells, every cell coastal.  In each map a player holds a single cell     *)
(* next to a unit of another player, so that players are eliminated while   *)
(* two others remain, and dead players are passed over, also across the     *)
(* wrap to player 0.  In the third map player 0 has a palm to chop; in the  *)
(* fourth player 0 can eliminate both others.  In the last map nobody is    *)
(* eliminated: player 1 cannot pay its knight, and player 0 can take the    *)
(* capital of player 2, whose other two cells both hold a unit.             *)

EliminationPlayers == 0..2

EliminationMaps ==
    { [h |-> 1, own |-> <<0, 0, 1, 2, 2>>, castles |-> {}, graves |-> {},
       units |-> << {NONE}, {PEASANT, SPEARMAN}, {NONE, TREE_PALM},
                    {NONE, PEASANT}, {NONE} >>],
      [h |-> 1, own |-> <<0, 1, 1, 2, 2>>, castles |-> {}, graves |-> {},
       units |-> << {NONE}, {PEASANT}, {NONE},
                    {NONE, SPEARMAN}, {NONE} >>],
      [h |-> 1, own |-> <<0, 0, 0, 1, 1, 2>>, castles |-> {}, graves |-> {},
       units |-> << {NONE, TREE_PALM}, {NONE, PEASANT}, {NONE}, {NONE},
                    {PEASANT, SPEARMAN}, {NONE, TREE_PALM} >>],
      [h |-> 1, own |-> <<1, 0, 0, 0, 2>>, castles |-> {}, graves |-> {},
       units |-> << {NONE}, {PEASANT}, {NONE}, {NONE, PEASANT}, {NONE} >>],
      [h |-> 1, own |-> <<1, 1, 0, 0, 2, 2, 2>>, castles |-> {}, graves |-> {},
       units |-> << {KNIGHT}, {NONE}, {NONE}, {SPEARMAN},
                    {NONE}, {PEASANT}, {PEASANT} >>] }

EliminationGold == {3, 10}

InitElimination ==
    \E m \in EliminationMaps, gold \in EliminationGold :
        \E units \in Draws(m.units) :
            LET gs == [Position(m, units, gold) EXCEPT
                          !.alive = [p \in EliminationPlayers |-> TRUE]]
            IN  /\ grid = gs.grid
                /\ territories = gs.territories
                /\ current_player_idx = gs.current_player_idx
                /\ turn_number = gs.turn_number
                /\ alive = gs.alive
                /\ game_over = gs.game_over
                /\ winner = gs.winner
                /\ phase = "start"
                /\ NoSearch
                /\ ai = NoTurn

NextElimination == StartTurn \/ MoveUnit \/ EndTurn

SpecElimination == InitElimination /\ [][NextElimination]_vars

-----------------------------------------------------------------------------

(* The search: take_turn calls search_best_action or search_at_depth on the *)
(* live grid once start_turn has run.                                       *)

SearchMaps ==
    { [h |-> 2, own |-> <<0, 0, 0, 1, 1, 1>>, castles |-> {}, graves |-> {},
       units |-> <<NONE, PEASANT, SPEARMAN, NONE, PEASANT, NONE>>],
      [h |-> 2, own |-> <<0, 0, 0, 1, 1, 1, 1, 1>>, castles |-> {4}, graves |-> {},
       units |-> <<NONE, NONE, KNIGHT, NONE, NONE, NONE, NONE, PEASANT>>],
      [h |-> 2, own |-> <<0, 0, -1, 1, 0, 1>>, castles |-> {}, graves |-> {},
       units |-> <<PEASANT, NONE, NONE, TREE_PALM, PEASANT, PEASANT>>],
      [h |-> 2, own |-> <<0, 1, 0, 1, Water, 1>>, castles |-> {}, graves |-> {},
       units |-> <<SPEARMAN, NONE, NONE, PEASANT, NONE, SPEARMAN>>],
      [h |-> 2, own |-> <<0, 0, 0, -1, -1, 1, 1, 1>>, castles |-> {}, graves |-> {},
       units |-> <<NONE, PEASANT, PEASANT, NONE, NONE, NONE, NONE, PEASANT>>],
      [h |-> 3, own |-> <<0, 0, 0, -1, 1, 0, 1, 1, 1>>, castles |-> {}, graves |-> {},
       units |-> <<NONE, PEASANT, SPEARMAN, NONE, NONE, NONE,
                   NONE, SPEARMAN, PEASANT>>] }
    \cup
    { [h |-> 2, own |-> <<0, 1, -1, 1, 1, 0>>, castles |-> {}, graves |-> {},
       units |-> <<SPEARMAN, NONE, NONE, NONE, KNIGHT, PEASANT>>],
      [h |-> 2, own |-> <<0, -1, 1, 0, 1, 1>>, castles |-> {}, graves |-> {},
       units |-> <<PEASANT, NONE, SPEARMAN, PEASANT, NONE, NONE>>],
      [h |-> 2, own |-> <<0, 1, 1, 0, -1, -1>>, castles |-> {}, graves |-> {},
       units |-> <<PEASANT, NONE, SPEARMAN, PEASANT, NONE, NONE>>] }

InitSearch ==
    \E m \in SearchMaps :
        LET gs == Position(m, m.units, 80)
        IN  /\ grid = gs.grid
            /\ territories = gs.territories
            /\ current_player_idx = gs.current_player_idx
            /\ turn_number = gs.turn_number
            /\ alive = gs.alive
            /\ game_over = gs.game_over
            /\ winner = gs.winner
            /\ phase = "start"
            /\ NoSearch
            /\ ai = NoTurn

\* search_best_action ("id") or search_at_depth ("fixed") up to its loop.
SearchBegin ==
    /\ phase = "play"
    /\ ~game_over
    /\ search.pc = "idle"
    /\ \E mode \in {"id", "fixed"}, d \in 1..MaxDepth :
           LET depth == IF mode = "id" THEN 1 ELSE d
           IN  /\ search' = [NoSearchState EXCEPT
                                !.pc = "run", !.mode = mode,
                                !.player = current_player_idx,
                                !.max_depth = d, !.depth = depth,
                                !.snap = snapshot(grid), !.game = GS]
               /\ stack' = <<RootFrame(grid, current_player_idx, depth)>>
    /\ UNCHANGED <<gvars, ret, applied, lifo_ok, ai>>

\* The top frame applies its next action and calls alphabeta, which runs
\* to its own loop or returns.
SearchCall ==
    /\ search.pc = "run"
    /\ ~ret.set
    /\ LET top == Len(stack)
           f == stack[top]
           r == fast_apply(grid, f.pidx, NumPlayers, f.actions[f.i])
           reads_clock == (search.nodes + 1) % CheckEvery = 0
       IN  \E passed \in (IF ~reads_clock THEN {search.expired}
                          ELSE IF search.expired THEN {TRUE} ELSE BOOLEAN) :
               LET e == alphabeta_enter(r.grid, r.idx, search.player, f.depth - 1,
                                        f.alpha, f.beta, search.nodes,
                                        search.timed_out, passed)
               IN  /\ grid' = r.grid
                   /\ stack' = [stack EXCEPT ![top].undo = r.undo] \o e.push
                   /\ ret' = e.ret
                   /\ search' = [search EXCEPT
                                     !.nodes = e.nodes,
                                     !.timed_out = e.timed_out,
                                     !.expired = passed,
                                     !.raised_at = IF e.timed_out /\ ~search.timed_out
                                                   THEN Len(applied) + 1 ELSE @]
                   /\ applied' = Append(applied, r.undo)
    /\ UNCHANGED <<territories, current_player_idx, turn_number, alive,
                   game_over, winner, phase, lifo_ok, ai>>

\* The call has returned to the top frame: it undoes its action and goes on
\* with its loop, or leaves it and returns to its own caller.
SearchReturn ==
    /\ search.pc = "run"
    /\ ret.set
    /\ LET top == Len(stack)
           f == stack[top]
           u == unwind(grid, f, search.timed_out)
           r == loop_resume(f, ret.value, search.timed_out)
           latest == Len(applied)
       IN  /\ grid' = u.grid
           /\ lifo_ok' = (lifo_ok /\ latest > 0 /\ u.undone = <<applied[latest]>>)
           /\ applied' = IF latest > 0 /\ u.undone # <<>>
                         THEN SubSeq(applied, 1, latest - 1) ELSE applied
           /\ IF ~r.exit
              THEN /\ stack' = [stack EXCEPT ![top] = r.frame]
                   /\ ret' = NoRet
                   /\ search' = search
              ELSE IF f.kind = "root"
              THEN /\ stack' = [stack EXCEPT ![top] = r.frame]
                   /\ ret' = NoRet
                   /\ search' = [search EXCEPT !.pc = "depth_done"]
              ELSE /\ stack' = SubSeq(stack, 1, top - 1)
                   /\ ret' = Returned(r.value)
                   /\ search' = search
    /\ UNCHANGED <<territories, current_player_idx, turn_number, alive,
                   game_over, winner, phase, ai>>

\* What a pass of the root loop of search_best_action leaves in best_action,
\* best_score and depth_reached, were it to keep the result of every pass.
keep_result_always(s, f) ==
    [s EXCEPT !.best_action = f.best, !.best_score = f.value,
              !.depth_reached = s.depth]

\* "if not _timed_out: best_action = d_best ..." of search_best_action.
keep_result(s, f) ==
    IF ~s.timed_out
    THEN [s EXCEPT !.best_action = f.best, !.best_score = f.value,
                   !.depth_reached = s.depth]
    ELSE s

\* After the root loop: search_at_depth returns what it has;
\* search_best_action keeps the result of a pass that was not timed out,
\* reads the clock and starts the next depth or returns.
DepthDone ==
    /\ search.pc = "depth_done"
    /\ LET f == stack[1]
           logged == [search EXCEPT !.passes =
                         Append(@, [depth |-> search.depth,
                                    timed_out |-> search.timed_out,
                                    d_best |-> f.best, d_score |-> f.value])]
       IN  IF search.mode = "fixed"
           THEN /\ search' = [logged EXCEPT !.pc = "done",
                                            !.best_action = f.best,
                                            !.best_score = f.value,
                                            !.depth_reached = search.depth]
                /\ stack' = <<>>
           ELSE \E passed \in (IF search.expired THEN {TRUE} ELSE BOOLEAN) :
                    LET s1 == keep_result(logged, f)
                    IN  IF passed \/ search.depth = search.max_depth
                        THEN /\ search' = [s1 EXCEPT !.pc = "done",
                                                     !.expired = passed]
                             /\ stack' = <<>>
                        ELSE /\ search' = [s1 EXCEPT !.pc = "run",
                                                     !.depth = @ + 1,
                                                     !.timed_out = FALSE,
                                                     !.nodes = 0,
                                                     !.expired = passed]
                             /\ stack' = <<RootFrame(grid, search.player,
                                                     search.depth + 1)>>
    /\ UNCHANGED <<gvars, ret, applied, lifo_ok, ai>>

NextSearch == StartTurn \/ SearchBegin \/ SearchCall \/ SearchReturn \/ DepthDone

SpecSearch == InitSearch /\ [][NextSearch]_vars

-----------------------------------------------------------------------------
(* ai/alphabeta_ai.py: AlphaBetaAI.take_turn, as arena.py drives it: while  *)
(* the game is not over the AI of the player to move takes its turn.  The   *)
(* buy phase is one step, the top of the search-and-act loop one step, the  *)
(* search runs in the steps of the search machine above, and acting on its  *)
(* result is one step.                                                      *)

\* "max_actions = 50" of take_turn, scaled to the boards of TurnMaps: a turn
\* on them applies at most four actions, one more than the repositions that
\* may follow one another.
max_actions == 4

TurnDepth == 2     \* AlphaBetaAI.max_depth

\* An entry of ai.ops: a GameState operation, what it returned, and the type
\* of the searched action it carried out (-1: none).
Op(op, ok, atype) == [op |-> op, ok |-> ok, atype |-> atype]

find_buy_target(g, territory, player_id) ==
    LET usable(p) == is_empty_land(g[p]) \/ g[p].grave \/ has_tree(g[p])
        enemy_adj(p) ==
            LET nb == get_neighbors(g, p)
            IN  Cardinality({k \in DOMAIN nb :
                    /\ g[nb[k]].is_land
                    /\ g[nb[k]].owner >= 0
                    /\ g[nb[k]].owner # player_id})
        cands == SelectSeq(territory.hexes, usable)
    IN  IF cands = <<>> THEN NoHex
        ELSE cands[FirstIdx(cands, LAMBDA p :
                       \A q \in SeqToSet(cands) : enemy_adj(q) <= enemy_adj(p))]

\* territories.sort(key=net_income, reverse=True): a stable sort of the
\* player's territory indexes.
by_net_income(gs, player_id) ==
    LET idxs == get_player_territories(gs, player_id)
        key(k) == net_income(gs.grid, gs.territories[idxs[k]])
        rank(k) == Cardinality({j \in DOMAIN idxs :
                       key(j) > key(k) \/ (key(j) = key(k) /\ j < k)}) + 1
    IN  [n \in DOMAIN idxs |-> idxs[CHOOSE k \in DOMAIN idxs : rank(k) = n]]

\* One pass of the while loop of _buy_phase for one territory, from the
\* state and operations r = [gs, ops, more]; more tells whether the loop
\* goes on.
buy_once(r, territory) ==
    LET t == r.gs.territories[territory]
        target == find_buy_target(r.gs.grid, t, r.gs.current_player_idx)
        b == buy_peasant(r.gs, territory, target)
        stop == [r EXCEPT !.more = FALSE]
    IN  IF t.gold < PEASANT_COST THEN stop
        ELSE IF t.gold - PEASANT_COST + net_income(r.gs.grid, t) - 2 < 0 THEN stop
        ELSE IF target = NoHex THEN stop
        ELSE [gs |-> b.gs,
              ops |-> Append(r.ops, Op("buy_peasant", b.ok, -1)),
              more |-> b.ok]

\* The while loop of _buy_phase for one territory.
RECURSIVE buy_while(_, _)
buy_while(r, territory) ==
    CHOOSE out \in {IF n.more THEN buy_while(n, territory) ELSE n :
                        n \in {buy_once(r, territory)}} : TRUE

\* The for loop of _buy_phase over the territories still to visit.
RECURSIVE buy_each(_, _)
buy_each(r, order) ==
    IF order = <<>> THEN r
    ELSE CHOOSE out \in {buy_each([n EXCEPT !.more = TRUE], Tail(order)) :
                             n \in {buy_while(r, Head(order))}} : TRUE

\* _buy_phase for the player to move: the state it leaves and the GameState
\* operations it made.
buy_phase(gs) ==
    buy_each([gs |-> gs, ops |-> <<>>, more |-> TRUE],
             by_net_income(gs, gs.current_player_idx))

\* The move counter never stops a reposition.
move_limit_never(consecutive_moves) == FALSE

\* "if consecutive_moves > 3" of take_turn.
move_limit(consecutive_moves) == consecutive_moves > 3

\* take_turn up to its loop: the buy phase.
TurnBegin ==
    /\ phase = "play"
    /\ ai.pc \in {"idle", "done"}
    /\ search.pc = "idle"
    /\ ~game_over
    /\ turn_number < MaxTurn
    /\ \E r \in {buy_phase(GS)} :
           /\ SetGame(r.gs, "play")
           /\ ai' = [NoTurn EXCEPT !.pc = "loop", !.pid = current_player_idx,
                                   !.ops = r.ops, !.last = r.gs]
    /\ UNCHANGED svars

\* apply_action(game_state, Action(END_TURN)) followed by break, after the
\* operations ops, with actions_taken = n and the move counter at moves.
TurnEnded(gs, ops, n, moves) ==
    \E e \in {end_turn(gs)} :
        /\ SetGame(e, "play")
        /\ ai' = [ai EXCEPT !.pc = "done", !.actions_taken = n,
                            !.consecutive_moves = moves,
                            !.ops = Append(ops, Op("end_turn", TRUE, -1)),
                            !.last = e]

\* The top of the loop: leave it, end the turn for want of time, or call
\* search_best_action.
TurnLoop ==
    /\ ai.pc = "loop"
    /\ IF ai.i >= max_actions \/ game_over \/ current_player_idx # ai.pid
       THEN /\ ai' = [ai EXCEPT !.pc = "done"]
            /\ UNCHANGED <<gvars, svars>>
       ELSE \E out_of_time \in BOOLEAN :
                IF out_of_time
                THEN /\ TurnEnded(GS, ai.ops, ai.actions_taken + 1,
                                  ai.consecutive_moves)
                     /\ UNCHANGED svars
                ELSE /\ search' = [NoSearchState EXCEPT
                                      !.pc = "run", !.mode = "id",
                                      !.player = ai.pid,
                                      !.max_depth = TurnDepth, !.depth = 1,
                                      !.snap = snapshot(grid), !.game = GS]
                     /\ stack' = <<RootFrame(grid, ai.pid, 1)>>
                     /\ ai' = [ai EXCEPT !.pc = "search"]
                     /\ UNCHANGED <<gvars, ret, applied, lifo_ok>>

\* search_best_action has returned: take_turn acts on its action.
TurnAct ==
    /\ ai.pc = "search"
    /\ search.pc = "done"
    /\ LET action == search.best_action
           atype == action.type
           moves == IF atype = ACT_MOVE THEN ai.consecutive_moves + 1 ELSE 0
           taken == ai.actions_taken + 1
       IN  IF atype = ACT_END_TURN
           THEN TurnEnded(GS, ai.ops, taken, moves)
           ELSE IF atype = ACT_MOVE /\ move_limit(moves)
           THEN TurnEnded(GS, ai.ops, taken + 1, moves)
           ELSE \E m \in {move_unit(GS, action.from, action.to)} :
                    IF ~m.ok
                    THEN TurnEnded(m.gs, Append(ai.ops, Op("move_unit", FALSE, atype)),
                                   taken + 1, moves)
                    ELSE /\ SetGame(m.gs, "play")
                         /\ ai' = [ai EXCEPT
                                      !.pc = "loop", !.i = @ + 1,
                                      !.actions_taken = taken,
                                      !.consecutive_moves = moves,
                                      !.ops = Append(@, Op("move_unit", TRUE, atype)),
                                      !.last = m.gs]
    /\ search' = NoSearchState
    /\ UNCHANGED <<stack, ret, applied, lifo_ok>>

TurnMaps ==
    { [h |-> 2, own |-> <<0, 0, 0, 1, 1, 1>>, castles |-> {}, graves |-> {},
       units |-> <<NONE, PEASANT, NONE, NONE, PEASANT, NONE>>],
      [h |-> 2, own |-> <<0, 0, -1, 1, 0, 1>>, castles |-> {}, graves |-> {},
       units |-> <<SPEARMAN, NONE, NONE, TREE_PALM, NONE, PEASANT>>],
      [h |-> 2, own |-> <<0, 0, 0, 0, 1, 1, 1, 1>>, castles |-> {}, graves |-> {},
       units |-> <<NONE, PEASANT, NONE, NONE, NONE, NONE, PEASANT, NONE>>],
      [h |-> 2, own |-> <<0, 0, 0, 0, 1, 1, 1, 1>>, castles |-> {}, graves |-> {},
       units |-> <<NONE, PEASANT, NONE, SPEARMAN, NONE, NONE, PEASANT, NONE>>] }

TurnGold == {0, 12}

InitTurn ==
    \E m \in TurnMaps, gold \in TurnGold :
        LET gs == Position(m, m.units, gold)
        IN  /\ grid = gs.grid
            /\ territories = gs.territories
            /\ current_player_idx = gs.current_player_idx
            /\ turn_number = gs.turn_number
            /\ alive = gs.alive
            /\ game_over = gs.game_over
            /\ winner = gs.winner
            /\ phase = "start"
            /\ NoSearch
            /\ ai = NoTurn

NextTurn ==
    StartTurn \/ TurnBegin \/ TurnLoop \/ SearchCall \/ SearchReturn
        \/ DepthDone \/ TurnAct

SpecTurn == InitTurn /\ [][NextTurn]_vars

\* A take_turn is between its buy phase and its return.
TakeTurnRuns == ai.pc \in {"loop", "search"}

\* arena.py runs one thread: the statement after the one that has run is
\* always taken, so a take_turn that has not returned takes a step in the
\* end.  This is weak fairness of the steps of a running take_turn; for all
\* but the return from a search call, "a step is possible" is written out
\* as TakeTurnRuns (every state in which a take_turn runs has a next step).
SpecTurnFair ==
    /\ SpecTurn
    /\ WF_vars(SearchReturn)
    /\ []<>~TakeTurnRuns \/ []<><<NextTurn>>_vars

-----------------------------------------------------------------------------
(* Properties of the territory engine *)

OwnedLand == {p \in DOMAIN grid : grid[p].is_land /\ grid[p].owner >= 0}

Adjacent(p, q) == Contains(get_neighbors(grid, p), q)

\* The cells of S joined to a cell of R by a chain of adjacent cells of S.
RECURSIVE Closure(_, _)
Closure(S, R) ==
    LET n == R \cup {q \in S : \E p \in R : Adjacent(p, q)}
    IN  IF n = R THEN R ELSE Closure(S, n)

TerritoryCells(t) == SeqToSet(t.hexes)

\* The places <<territory index, member index>> at which p is listed.
Occurrences(p) ==
    UNION {{<<i, k>> : k \in {j \in DOMAIN territories[i].hexes :
                                  territories[i].hexes[j] = p}} :
           i \in DOMAIN territories}

\* C4: in every state from map setup on, the territories are exactly the
\* partition of the owned land cells into maximal connected same-owner sets:
\* each owned land cell occurs exactly once in exactly one territory, every
\* member is an owned land cell of the territory's owner, and each territory
\* is the whole same-owner component of its first cell.
C4_TerritoryPartition ==
    /\ \A p \in OwnedLand :
           Cardinality(Occurrences(p)) = 1
    /\ \A i \in DOMAIN territories :
           LET t == territories[i]
           IN  /\ t.hexes # <<>>
               /\ TerritoryCells(t) \subseteq OwnedLand
               /\ \A p \in TerritoryCells(t) : grid[p].owner = t.owner
               /\ TerritoryCells(t) =
                      Closure({q \in OwnedLand : grid[q].owner = t.owner},
                              {t.hexes[1]})

\* A capture has joined two territories and a neutral cell into one of 5 cells.
C4_Witness ==
    /\ phase = "play"
    /\ \E i \in DOMAIN territories : Len(territories[i].hexes) >= 5

\* C5: in every state from map setup on, a territory of size >= 2 has
\* exactly one member with has_capital, a territory of size 1 has none, and
\* no neutral cell has a capital.
C5_CapitalInvariant ==
    /\ \A i \in DOMAIN territories :
           LET t == territories[i]
               caps == {p \in TerritoryCells(t) : grid[p].has_capital}
           IN  IF Len(t.hexes) >= 2 THEN Cardinality(caps) = 1 ELSE caps = {}
    /\ \A p \in DOMAIN grid : grid[p].owner < 0 => ~grid[p].has_capital

\* After a capture there is a single-cell territory and a territory of three
\* or more cells, with a unit on the board.
C5_Witness ==
    /\ phase = "play"
    /\ \E p \in DOMAIN grid : has_combat_unit(grid[p])
    /\ \E i, j \in DOMAIN territories :
           /\ Len(territories[i].hexes) = 1
           /\ Len(territories[j].hexes) >= 3

\* The attacker's territories that a successful capture of to_hex joins into
\* the territory holding to_hex afterwards.
Joined(after, to_hex) ==
    LET k == FirstIdx(after.territories, LAMBDA t : contains(t, to_hex))
    IN  {i \in DOMAIN territories :
             /\ territories[i].owner = current_player_idx
             /\ TerritoryCells(territories[i])
                    \subseteq TerritoryCells(after.territories[k])}

RECURSIVE SumGold(_)
SumGold(I) ==
    IF I = {} THEN 0
    ELSE LET i == CHOOSE i \in I : TRUE
         IN  territories[i].gold + SumGold(I \ {i})

IsCapture(f, t) ==
    /\ grid[t].owner # current_player_idx
    /\ move_unit(GS, f, t).ok

\* C6: whenever a capture joins two or more territories of the attacker, of
\* any sizes, the treasury of the resulting territory is the sum of the
\* treasuries they held immediately before the capture.
C6_MergeGold ==
    phase = "play" =>
        \A f \in DOMAIN grid, t \in DOMAIN grid :
            IsCapture(f, t) =>
                LET after == move_unit(GS, f, t).gs
                    k == FirstIdx(after.territories, LAMBDA x : contains(x, t))
                IN  Cardinality(Joined(after, t)) >= 2 =>
                        after.territories[k].gold = SumGold(Joined(after, t))

\* A capture joins a single-cell territory to a territory holding gold, and
\* another joins two territories that both hold a capital and gold.
C6_Witness ==
    /\ phase = "play"
    /\ \E f \in DOMAIN grid, t \in DOMAIN grid :
           /\ IsCapture(f, t)
           /\ LET J == Joined(move_unit(GS, f, t).gs, t)
              IN  /\ Cardinality(J) >= 2
                  /\ SumGold(J) > 0
                  /\ \E i \in J : Len(territories[i].hexes) = 1

-----------------------------------------------------------------------------
(* Properties of income, bankruptcy and combining *)

\* The cell a unit's death leaves: the unit gone, a grave, no movement.
Grave(h) == [h EXCEPT !.unit = NONE, !.grave = TRUE, !.can_move = FALSE]

\* C7: for every territory, collect_income with gold + net_income < 0 turns
\* each of its combat units into a grave and leaves the treasury at 0; with
\* gold + net_income >= 0 it changes no cell and leaves gold + net_income;
\* either way no cell outside the territory changes (the treasuries of the
\* other territories are not touched by the call).
C7_Bankruptcy ==
    \A i \in DOMAIN territories :
        LET t == territories[i]
            r == collect_income(grid, t)
            due == t.gold + net_income(grid, t)
        IN  /\ \A p \in DOMAIN grid \ TerritoryCells(t) : r.grid[p] = grid[p]
            /\ r.terr.hexes = t.hexes /\ r.terr.owner = t.owner
            /\ IF due < 0
               THEN /\ r.terr.gold = 0
                    /\ \A p \in TerritoryCells(t) :
                           r.grid[p] = IF has_combat_unit(grid[p]) THEN Grave(grid[p])
                                       ELSE grid[p]
               ELSE /\ r.terr.gold = due
                    /\ r.grid = grid

\* start_turn is due for a player one of whose territories cannot pay its
\* two or more units, while another territory also holds a unit.
C7_Witness ==
    /\ phase = "start"
    /\ \E i, j \in DOMAIN territories :
           /\ i # j
           /\ territories[i].owner = current_player_idx
           /\ territories[i].gold + net_income(grid, territories[i]) < 0
           /\ Cardinality({p \in TerritoryCells(territories[i]) :
                               has_combat_unit(grid[p])}) >= 2
           /\ \E p \in TerritoryCells(territories[j]) : has_combat_unit(grid[p])

\* A territory with gold = 5, income = 3 and wages = 6.
Scenario538(t) == t.gold = 5 /\ income(grid, t) = 3 /\ wages(grid, t) = 6

\* C8 (as amended): for a territory with gold = 5, income = 3 and wages = 6,
\* collect_income leaves the treasury at 2 and changes no cell: no unit dies.
C8_ScenarioSolvent ==
    \A i \in DOMAIN territories :
        Scenario538(territories[i]) =>
            LET r == collect_income(grid, territories[i])
            IN  r.terr.gold = 2 /\ r.grid = grid

\* C8 as stated: for such a territory collect_income leaves the treasury at
\* 0 and a grave on every cell that held a combat unit.
C8_ScenarioBankrupt ==
    \A i \in DOMAIN territories :
        Scenario538(territories[i]) =>
            LET r == collect_income(grid, territories[i])
            IN  /\ r.terr.gold = 0
                /\ \A p \in TerritoryCells(territories[i]) :
                       has_combat_unit(grid[p]) => r.grid[p].grave

\* start_turn is due for the owner of such a territory.
C8_Witness ==
    /\ phase = "start"
    /\ \E i \in DOMAIN territories :
           /\ Scenario538(territories[i])
           /\ territories[i].owner = current_player_idx

\* move_unit(f, t) is a combination: a movable unit of the player to move,
\* onto another cell of its territory that holds a unit.
CombineMove(f, t) ==
    /\ f # t
    /\ grid[f].owner = current_player_idx
    /\ has_combat_unit(grid[f]) /\ grid[f].can_move
    /\ has_combat_unit(grid[t])
    /\ \E i \in DOMAIN territories :
           contains(territories[i], f) /\ contains(territories[i], t)

\* buy_peasant(i, p) is a combination: the player's territory can pay and p
\* is a cell of it that holds a unit.
CombineBuy(i, p) ==
    /\ territories[i].owner = current_player_idx
    /\ territories[i].gold >= PEASANT_COST
    /\ contains(territories[i], p)
    /\ has_combat_unit(grid[p])

\* C9: no cell ever holds a unit above tier 4; a combination by move_unit or
\* buy_peasant whose tiers sum to at most 4 succeeds and leaves a unit of that
\* tier on the target; one whose tiers sum to more than 4 returns failure and
\* leaves the whole state (both cells and every treasury) unchanged.
C9_CombineCap ==
    /\ \A p \in DOMAIN grid : grid[p].unit \in NONE..BARON
    /\ phase = "play" =>
        /\ \A f \in DOMAIN grid, t \in DOMAIN grid :
               CombineMove(f, t) =>
                   LET r == move_unit(GS, f, t)
                       sum == unit_power(grid[f].unit) + unit_power(grid[t].unit)
                   IN  IF sum <= 4
                       THEN r.ok /\ unit_power(r.gs.grid[t].unit) = sum
                       ELSE ~r.ok /\ r.gs = GS
        /\ \A i \in DOMAIN territories, p \in DOMAIN grid :
               CombineBuy(i, p) =>
                   LET r == buy_peasant(GS, i, p)
                       sum == unit_power(grid[p].unit) + 1
                   IN  IF sum <= 4
                       THEN r.ok /\ unit_power(r.gs.grid[p].unit) = sum
                       ELSE ~r.ok /\ r.gs = GS

\* A knight can be asked to join a spearman (sum 5), a peasant can be bought
\* onto a baron (sum 5), and a combination has produced the baron.
C9_Witness ==
    /\ phase = "play"
    /\ \E f \in DOMAIN grid, t \in DOMAIN grid :
           /\ CombineMove(f, t)
           /\ unit_power(grid[f].unit) + unit_power(grid[t].unit) > 4
    /\ \E i \in DOMAIN territories, p \in DOMAIN grid :
           CombineBuy(i, p) /\ grid[p].unit = BARON

-----------------------------------------------------------------------------
(* Properties of the search *)

\* The actions of player p in the current grid that fast_apply / fast_undo
\* do not take back to the current grid.
NotRestored(p) ==
    LET acts == get_search_actions(grid, p)
    IN  {k \in DOMAIN acts :
            LET r == fast_apply(grid, p, NumPlayers, acts[k])
            IN  fast_undo(r.grid, r.undo) # grid}

\* C1: in every grid the game or a search reaches, for every player and
\* every action get_search_actions lists for them, fast_undo of the record
\* fast_apply returned gives back the grid as it was before the apply, every
\* field of every cell.
C1_UndoInvertsApply == \A p \in Players : NotRestored(p) = {}

\* A search is under way in a grid where a unit can capture a cell holding a
\* capital or a castle, and where ending the turn changes the grid.
C1_Witness ==
    /\ Len(stack) >= 2
    /\ \E p \in Players :
           LET acts == get_search_actions(grid, p)
           IN  /\ \E k \in DOMAIN acts :
                      /\ acts[k].type = ACT_CAPTURE
                      /\ grid[acts[k].to].has_capital \/ grid[acts[k].to].has_castle
                      /\ fast_apply(grid, p, NumPlayers, acts[k]).grid # grid
               /\ fast_apply(grid, p, NumPlayers, EndTurnAct).grid # grid
               /\ NotRestored(p) = {}

\* C2: when search_best_action or search_at_depth has returned, timed out or
\* not, every cell has the field values it had when the call started and the
\* territories, treasuries, turn index and alive flags are as they were.
C2_SearchLeavesNoTrace ==
    search.pc = "done" =>
        /\ snapshot(grid) = search.snap
        /\ GS = search.game

\* A search has returned after the timeout flag was raised at least two
\* calls below the root loop.
C2_Witness ==
    /\ search.pc = "done"
    /\ search.timed_out
    /\ search.raised_at >= 3
    /\ snapshot(grid) = search.snap

\* C3: every fast_undo so far undid the latest fast_apply not yet undone,
\* with that apply's own record; the applies not yet undone are exactly those
\* of the frames waiting for a call to return; and none is left once the
\* root loop is over.  This also holds while a timeout unwinds.
C3_ApplyUndoNested ==
    /\ lifo_ok
    /\ Len(applied) = (IF search.pc = "run"
                       THEN Len(stack) - (IF ret.set THEN 0 ELSE 1)
                       ELSE 0)
    /\ \A k \in DOMAIN applied : applied[k] = stack[k].undo

\* A timeout raised at least two calls below the root loop has been unwound
\* down to the root loop's own action.
C3_Witness ==
    /\ search.pc = "run"
    /\ search.timed_out
    /\ search.raised_at >= 3
    /\ Len(applied) = 1
    /\ lifo_ok

SetMax(S) == CHOOSE x \in S : \A y \in S : y <= x

SetMin(S) == CHOOSE x \in S : \A y \in S : x <= y

\* Plain minimax over the reduced action model, on copies of the grid.
RECURSIVE Minimax(_, _, _, _)
Minimax(g, pidx, max_pid, depth) ==
    IF depth <= 0 THEN eval_hex_count(g, max_pid)
    ELSE LET acts == get_search_actions(g, pidx)
             vals == {LET r == fast_apply(g, pidx, NumPlayers, acts[k])
                      IN  Minimax(r.grid, r.idx, max_pid, depth - 1) :
                      k \in DOMAIN acts}
         IN  IF pidx = max_pid THEN SetMax(vals) ELSE SetMin(vals)

\* The number of alphabeta calls a search of the given depth makes below a
\* node when nothing is pruned.
RECURSIVE TreeSize(_, _, _)
TreeSize(g, pidx, depth) ==
    IF depth <= 0 THEN 0
    ELSE LET acts == get_search_actions(g, pidx)
         IN  SumSeq([k \in DOMAIN acts |->
                        LET r == fast_apply(g, pidx, NumPlayers, acts[k])
                        IN  1 + TreeSize(r.grid, r.idx, depth - 1)])

\* C10: a search_at_depth that was not timed out returns the minimax value
\* of its depth, and search_best_action returns the minimax value of the
\* deepest depth it completed.
C10_AlphaBetaIsMinimax ==
    search.pc = "done" =>
        /\ (search.mode = "fixed" /\ ~search.timed_out) =>
               search.best_score =
                   Minimax(search.game.grid, search.player, search.player,
                           search.max_depth)
        /\ (search.mode = "id" /\ search.depth_reached >= 1) =>
               search.best_score =
                   Minimax(search.game.grid, search.player, search.player,
                           search.depth_reached)

\* A search_at_depth has returned, not timed out, having pruned: it made
\* fewer alphabeta calls than the full tree of its depth has nodes.
C10_Witness ==
    /\ search.pc = "done"
    /\ search.mode = "fixed"
    /\ ~search.timed_out
    /\ search.max_depth >= 2
    /\ search.nodes < TreeSize(search.game.grid, search.player, search.max_depth)
    /\ search.best_score =
           Minimax(search.game.grid, search.player, search.player,
                   search.max_depth)

-----------------------------------------------------------------------------
(* Properties of the GameState operations *)

\* C11: whenever buy_peasant, buy_castle or move_unit returns failure, the
\* grid, every treasury, the territory list, the turn index and the
\* alive/game_over flags are all exactly as before the call.
C11_FailureChangesNothing ==
    phase = "play" =>
        /\ \A i \in DOMAIN territories, p \in DOMAIN grid :
               /\ ~buy_peasant(GS, i, p).ok => buy_peasant(GS, i, p).gs = GS
               /\ ~buy_castle(GS, i, p).ok => buy_castle(GS, i, p).gs = GS
        /\ \A f \in DOMAIN grid, t \in DOMAIN grid :
               ~move_unit(GS, f, t).ok => move_unit(GS, f, t).gs = GS

\* In one state: a combination above tier 4 is refused to a move, an attack
\* whose power does not exceed the defence is refused, a peasant is refused
\* onto a baron by a territory that can pay, and a castle is refused on the
\* capital cell of a territory that can pay.
C11_Witness ==
    /\ phase = "play"
    /\ \E f \in DOMAIN grid, t \in DOMAIN grid :
           /\ CombineMove(f, t)
           /\ ~move_unit(GS, f, t).ok
    /\ \E f \in DOMAIN grid, t \in DOMAIN grid :
           /\ grid[f].owner = current_player_idx
           /\ has_combat_unit(grid[f]) /\ grid[f].can_move
           /\ grid[t].owner # current_player_idx
           /\ Adjacent(f, t)
           /\ unit_power(grid[f].unit) <= get_relative_power(grid, t)
           /\ ~move_unit(GS, f, t).ok
    /\ \E i \in DOMAIN territories, p \in DOMAIN grid :
           /\ CombineBuy(i, p)
           /\ ~buy_peasant(GS, i, p).ok
    /\ \E i \in DOMAIN territories, p \in DOMAIN grid :
           /\ territories[i].owner = current_player_idx
           /\ territories[i].gold >= CASTLE_COST
           /\ contains(territories[i], p)
           /\ grid[p].has_capital
           /\ ~buy_castle(GS, i, p).ok

\* The unit on f may attack t: f is the current player's and holds a movable
\* combat unit, and t is adjacent to some cell of the unit's territory.
MayAttack(f, t) ==
    /\ grid[f].owner = current_player_idx
    /\ has_combat_unit(grid[f]) /\ grid[f].can_move
    /\ \E i \in DOMAIN territories :
           /\ territories[i].owner = current_player_idx
           /\ contains(territories[i], f)
           /\ \E q \in TerritoryCells(territories[i]) : Adjacent(q, t)

\* C12: move_unit onto a land cell not owned by the current player succeeds
\* if and only if the source is the current player's, holds a movable combat
\* unit, the target is adjacent to a cell of the unit's territory and the
\* unit's power is strictly greater than the target's relative power.  On
\* success the target is the attacker's, holds the attacking unit with
\* can_move false and no capital, castle or grave, the source holds no unit,
\* and no territory of the former owner contains the target; otherwise the
\* state is unchanged.
C12_Capture ==
    phase = "play" =>
        \A f \in DOMAIN grid, t \in DOMAIN grid :
            (grid[t].is_land /\ grid[t].owner # current_player_idx) =>
                LET r == move_unit(GS, f, t)
                    a == r.gs
                IN  /\ r.ok <=> (/\ MayAttack(f, t)
                                 /\ unit_power(grid[f].unit)
                                        > get_relative_power(grid, t))
                    /\ r.ok =>
                           /\ a.grid[t].owner = current_player_idx
                           /\ a.grid[t].unit = grid[f].unit
                           /\ ~a.grid[t].can_move
                           /\ ~a.grid[t].has_capital
                           /\ ~a.grid[t].has_castle
                           /\ ~a.grid[t].grave
                           /\ a.grid[f].unit = NONE
                           /\ \A k \in DOMAIN a.territories :
                                  contains(a.territories[k], t) =>
                                      a.territories[k].owner = current_player_idx
                    /\ ~r.ok => a = GS

\* In one state a unit can capture an enemy cell that holds a unit, and the
\* attack of another unit on that cell is refused because its power only
\* equals the defence.
C12_Witness ==
    /\ phase = "play"
    /\ \E f \in DOMAIN grid, g \in DOMAIN grid, t \in DOMAIN grid :
           /\ grid[t].owner \in Players \ {current_player_idx}
           /\ has_combat_unit(grid[t])
           /\ move_unit(GS, f, t).ok
           /\ MayAttack(g, t)
           /\ unit_power(grid[g].unit) = get_relative_power(grid, t)
           /\ ~move_unit(GS, g, t).ok

\* C13: in every reachable state the treasury of every territory is an
\* integer >= 0.
C13_GoldNonNegative ==
    \A i \in DOMAIN territories : territories[i].gold \in Nat

\* A territory of the player to move went bankrupt in the start_turn just
\* made: it has a capital and a treasury of 0 and the grave of its unit has
\* grown a tree, while another territory still holds the 10 to 14 gold that
\* both began with.
C13_Witness ==
    /\ phase = "play"
    /\ \E i \in DOMAIN territories :
           /\ territories[i].owner = current_player_idx
           /\ Len(territories[i].hexes) >= 2
           /\ territories[i].gold = 0
           /\ \E p \in TerritoryCells(territories[i]) : has_tree(grid[p])
           /\ \A p \in TerritoryCells(territories[i]) : ~has_combat_unit(grid[p])
    /\ \E i \in DOMAIN territories :
           territories[i].gold \in PEASANT_COST..(CASTLE_COST - 1)

\* What a cell holds: a combat unit or tree (the unit field), a capital, a
\* castle, a grave.
Contents(h) ==
    (IF h.unit # NONE THEN {"unit"} ELSE {})
        \cup (IF h.has_capital THEN {"capital"} ELSE {})
        \cup (IF h.has_castle THEN {"castle"} ELSE {})
        \cup (IF h.grave THEN {"grave"} ELSE {})

\* C14: after map setup and after any sequence of GameState operations every
\* land cell holds at most one of: a combat unit or tree, a capital, a castle,
\* a grave (none of them: the cell is empty); the unit field is a single
\* value, so a cell never holds a combat unit together with a tree.
C14_OneContent ==
    \A p \in DOMAIN grid :
        /\ grid[p].is_land => Cardinality(Contents(grid[p])) <= 1
        /\ ~grid[p].is_land => Contents(grid[p]) = {}

\* A territory of the player to move has no empty cell left: it holds a
\* capital, a castle and a combat unit; and a cell of the board holds a tree.
C14_Witness ==
    /\ phase = "play"
    /\ \E i \in DOMAIN territories :
           LET C == TerritoryCells(territories[i])
           IN  /\ territories[i].owner = current_player_idx
               /\ \A p \in C : Contents(grid[p]) # {}
               /\ \E p \in C : grid[p].has_castle
               /\ \E p \in C : has_combat_unit(grid[p])
    /\ \E p \in DOMAIN grid : has_tree(grid[p]) \/ grid[p].grave

-----------------------------------------------------------------------------
(* Properties of turn progression *)

Alive == {p \in Players : alive[p]}

\* After every completed operation: game_over is true exactly when at most
\* one player is alive, the winner is then the one alive player, and the
\* player whose start_turn has run is alive only if they own a territory.
C15_Flags ==
    /\ game_over <=> Cardinality(Alive) <= 1
    /\ game_over => \A p \in Alive : winner = p
    /\ phase = "play" =>
           (alive[current_player_idx]
                => get_player_territories(GS, current_player_idx) # <<>>)

\* Across every operation: a player who stops being alive is the player
\* whose start_turn the operation ran and owns no territory after it; a dead
\* player stays dead; game_over stays true.
C15_Step ==
    /\ \A p \in Players :
           (alive[p] /\ ~alive'[p]) =>
               /\ current_player_idx' = p
               /\ \A i \in DOMAIN territories' : territories'[i].owner # p
    /\ \A p \in Players : ~alive[p] => ~alive'[p]
    /\ game_over => game_over'

\* C15: with two players, a player is marked dead exactly in their own
\* start_turn when they own no territory after the recomputation; after
\* every completed operation game_over is true iff at most one player is
\* alive; game_over once true stays true, a dead player never becomes alive
\* again, and winner is the id of the single alive player.
C15_DeathAndVictory == [](C15_Flags) /\ [][C15_Step]_vars

\* The game is over with one player dead, and the survivor has since begun
\* a turn of their own.
C15_Witness ==
    /\ phase = "play"
    /\ game_over
    /\ Cardinality(Alive) = 1
    /\ alive[current_player_idx]
    /\ winner = current_player_idx

-----------------------------------------------------------------------------
(* Properties of the search drivers *)

\* The passes of the root loop that ended without the timeout flag raised.
Completed == {k \in DOMAIN search.passes : ~search.passes[k].timed_out}

\* The deepest of them.
Deepest == CHOOSE k \in Completed :
               \A j \in Completed : search.passes[j].depth <= search.passes[k].depth

\* C16: what search_best_action holds, and returns, is the best action and
\* score of the deepest depth whose root loop ended without the timeout flag
\* raised, with depth_reached that depth; the partial result of a pass cut
\* short by the deadline never replaces it; with no such depth it is
\* END_TURN with depth_reached = 0.
C16_KeepsDeepestCompleted ==
    (search.mode = "id" /\ search.pc \in {"run", "done"}) =>
        IF Completed = {}
        THEN /\ search.best_action = EndTurnAct
             /\ search.depth_reached = 0
        ELSE /\ search.best_action = search.passes[Deepest].d_best
             /\ search.best_score = search.passes[Deepest].d_score
             /\ search.depth_reached = search.passes[Deepest].depth

\* search_best_action has returned after a pass that the deadline cut short
\* with a partial best action other than the one returned, which a shallower
\* pass produced.
C16_Witness ==
    /\ search.mode = "id"
    /\ search.pc = "done"
    /\ Completed # {}
    /\ \E k \in DOMAIN search.passes :
           /\ search.passes[k].timed_out
           /\ search.passes[k].depth > search.depth_reached
           /\ search.passes[k].d_best # search.best_action
           /\ search.passes[k].d_best # EndTurnAct

-----------------------------------------------------------------------------
(* Properties of take_turn *)

\* ops[k] is a reposition that the engine carried out.
Reposition(ops, k) ==
    ops[k].op = "move_unit" /\ ops[k].atype = ACT_MOVE /\ ops[k].ok

\* C17: within one take_turn, whenever take_turn itself is in control (not
\* inside a search) the game is exactly as the latest GameState operation of
\* the call (buy_peasant, move_unit or end_turn) left it; no four repositions
\* in a row are applied; and a move_unit that the engine rejects is followed
\* by end_turn as the next and last operation of the call.
C17_TakeTurn ==
    ai.pc # "idle" =>
        /\ (ai.pc \in {"loop", "done"} \/ search.pc = "done") => GS = ai.last
        /\ \A k \in DOMAIN ai.ops :
               ai.ops[k].op \in {"buy_peasant", "move_unit", "end_turn"}
        /\ \A k \in DOMAIN ai.ops :
               ~(/\ k + 3 \in DOMAIN ai.ops
                 /\ \A j \in k..(k + 3) : Reposition(ai.ops, j))
        /\ \A k \in DOMAIN ai.ops :
               (ai.ops[k].op = "move_unit" /\ ~ai.ops[k].ok) =>
                   /\ k + 1 = Len(ai.ops)
                   /\ ai.ops[k + 1].op = "end_turn"
        /\ \A k \in DOMAIN ai.ops :
               ai.ops[k].op = "end_turn" => (k = Len(ai.ops) /\ ai.pc = "done")

\* A take_turn has bought a peasant, applied three repositions in a row,
\* been handed a fourth by the search and ended the turn instead.
C17_Witness ==
    /\ ai.pc = "done"
    /\ ai.consecutive_moves = 4
    /\ Len(ai.ops) >= 5
    /\ ai.ops[1].op = "buy_peasant"
    /\ LET n == Len(ai.ops)
       IN  /\ ai.ops[n].op = "end_turn"
           /\ \A j \in (n - 3)..(n - 1) : Reposition(ai.ops, j)

-----------------------------------------------------------------------------
(* Properties of the action model *)

Legal == SeqToSet(get_legal_actions(GS))

\* Every BUY_PEASANT, BUY_CASTLE and MOVE_UNIT action that names cells of the
\* grid and a territory index from 0 up to one past the player's last.
Candidates ==
    LET n == Len(get_player_territories(GS, current_player_idx))
    IN  {Action(type, NoHex, p, i) :
             type \in {BUY_PEASANT, BUY_CASTLE}, p \in DOMAIN grid, i \in 0..n}
        \cup {Action(MOVE_UNIT, f, t, NoIdx) : f \in DOMAIN grid, t \in DOMAIN grid}

\* A castle bought onto a tree cell, and a unit moved onto its own cell.
CastleOnTree(a) == a.type = BUY_CASTLE /\ has_tree(grid[a.to_pos])

SelfMove(a) == a.type = MOVE_UNIT /\ a.from_pos = a.to_pos

\* C18: get_legal_actions is complete: every BUY_PEASANT, BUY_CASTLE or
\* MOVE_UNIT action that apply_action accepts for the current player is in
\* the list get_legal_actions returns for the same state.
C18_Complete ==
    phase = "play" =>
        \A a \in Candidates : apply_action(GS, a).ok => a \in Legal

\* C18, as far as the code goes: every accepted action is listed, except a
\* castle bought onto a tree cell and a move of a unit onto its own cell.
C18_CompleteButTreeAndSelf ==
    phase = "play" =>
        \A a \in Candidates :
            (apply_action(GS, a).ok /\ ~CastleOnTree(a) /\ ~SelfMove(a))
                => a \in Legal

\* A territory that can pay for a castle has a tree cell: apply_action
\* accepts the castle there and get_legal_actions does not list it; and the
\* player has a peasant that apply_action lets move onto its own cell.
C18_Witness ==
    /\ phase = "play"
    /\ \E a \in Candidates :
           CastleOnTree(a) /\ apply_action(GS, a).ok /\ a \notin Legal
    /\ \E a \in Candidates :
           SelfMove(a) /\ apply_action(GS, a).ok /\ a \notin Legal

\* C19: get_legal_actions is sound: every action in the list it returns is
\* accepted by apply_action in the same state, and the list always contains
\* END_TURN.
C19_Sound ==
    phase = "play" =>
        /\ \A a \in Legal : apply_action(GS, a).ok
        /\ Action(END_TURN, NoHex, NoHex, NoIdx) \in Legal

\* The list holds a purchase that combines, a purchase onto a tree, a move
\* that chops a tree and an attack.
C19_Witness ==
    /\ phase = "play"
    /\ \E a \in Legal : a.type = BUY_PEASANT /\ has_combat_unit(grid[a.to_pos])
    /\ \E a \in Legal : a.type = BUY_PEASANT /\ has_tree(grid[a.to_pos])
    /\ \E a \in Legal : a.type = MOVE_UNIT /\ has_tree(grid[a.to_pos])
    /\ \E a \in Legal : a.type = MOVE_UNIT
                             /\ grid[a.to_pos].owner # current_player_idx

-----------------------------------------------------------------------------
(* Properties of start_turn *)

\* The game state on which start_turn runs next: the present one when
\* start_turn is due, else the one advance_turn hands it after end_turn.
StartTurnInput ==
    IF phase = "start" THEN GS
    ELSE LET idx == (current_player_idx + 1) % NumPlayers
         IN  [GS EXCEPT !.current_player_idx = idx,
                        !.turn_number = IF idx = 0 THEN @ + 1 ELSE @]

\* The treasury that the territory with the cells of t holds in gs.
GoldOf(gs, t) ==
    LET k == CHOOSE k \in DOMAIN gs.territories :
                 SeqToSet(gs.territories[k].hexes) = SeqToSet(t.hexes)
    IN  gs.territories[k].gold

\* Previous treasury plus net income, or 0 when that is negative.
Collected(gs, t) == Max2(0, t.gold + net_income(gs.grid, t))

-----------------------------------------------------------------------------
(* Properties of a unit's movement within a turn *)

\* The cell holds a combat unit of the player to move whose movement is used
\* up.  (start_turn makes every such unit movable and a bought unit is
\* movable, so the flag is down only after a capture, a chopped tree or a
\* cleared grave of this turn.)
Exhausted(gs, p) ==
    /\ gs.grid[p].is_land
    /\ gs.grid[p].owner = gs.current_player_idx
    /\ has_combat_unit(gs.grid[p])
    /\ ~gs.grid[p].can_move

\* Some move_unit with source p succeeds in gs.
CanActFrom(gs, p) == \E t \in DOMAIN gs.grid : move_unit(gs, p, t).ok

\* The move ends the unit's movement: a capture, a chopped tree or a
\* cleared grave.
EndsMovement(f, t) ==
    \/ grid[t].owner # current_player_idx
    \/ has_tree(grid[t])
    \/ grid[t].grave

\* A step inside one turn of one player.
SameTurn ==
    /\ phase = "play" /\ phase' = "play"
    /\ current_player_idx' = current_player_idx
    /\ turn_number' = turn_number

\* Right after a successful move that ends the unit's movement, no
\* move_unit from the cell the unit arrived on succeeds.
C21_SpentByMove ==
    phase = "play" =>
        \A f \in DOMAIN grid, t \in DOMAIN grid :
            LET r == move_unit(GS, f, t)
            IN  (r.ok /\ EndsMovement(f, t)) => ~CanActFrom(r.gs, t)

\* Across an operation of the same turn, a cell whose unit is spent holds
\* no unit that can act, unless the operation combined another unit into it.
C21_StaysSpentStep ==
    SameTurn =>
        \A p \in DOMAIN grid :
            (Exhausted(GS, p) /\ CanActFrom(GS', p)) =>
                /\ has_combat_unit(grid'[p])
                /\ unit_power(grid'[p].unit) > unit_power(grid[p].unit)

\* Across an operation of the same turn, a cell whose unit is spent holds
\* no unit that can act, whatever the operation.
C21_AlwaysSpentStep ==
    SameTurn => \A p \in DOMAIN grid : Exhausted(GS, p) => ~CanActFrom(GS', p)

\* C21 (as amended): a unit whose movement has been used up by a capture,
\* by chopping a tree or by clearing a grave cannot act again in the same
\* turn as long as no unit is combined into it: no move_unit from its cell
\* succeeds until its owner's next start_turn, unless a peasant is bought
\* onto the cell or another unit is moved onto it, which makes the combined
\* unit movable.
C21_SpentUntilCombined == [](C21_SpentByMove) /\ [][C21_StaysSpentStep]_vars

\* C21 as stated: from the move that used its movement up until its owner's
\* next start_turn, no move_unit with the unit's cell as source succeeds,
\* whatever other operations the player interleaves.
C21_SpentWhateverInterleaved == [](C21_SpentByMove) /\ [][C21_AlwaysSpentStep]_vars

\* A spent unit stands on a cell onto which a peasant can be bought, and
\* the combined unit can then act.
C21_Witness ==
    /\ phase = "play"
    /\ \E p \in DOMAIN grid, ti \in DOMAIN territories :
           /\ Exhausted(GS, p)
           /\ ~CanActFrom(GS, p)
           /\ LET r == buy_peasant(GS, ti, p)
              IN  r.ok /\ CanActFrom(r.gs, p)

-----------------------------------------------------------------------------
(* Properties of repositioning *)

\* The sum of the tiers of the combat units of a player.
RECURSIVE TierSumOver(_, _)
TierSumOver(g, S) ==
    IF S = {} THEN 0
    ELSE LET p == CHOOSE p \in S : TRUE
         IN  unit_power(g[p].unit) + TierSumOver(g, S \ {p})

TierSum(gs, player_id) ==
    TierSumOver(gs.grid, {p \in DOMAIN gs.grid :
                             gs.grid[p].is_land /\ gs.grid[p].owner = player_id})

\* The target of the move lies inside the territory of the source unit.
IsReposition(f, t) ==
    /\ grid[f].is_land /\ grid[f].owner = current_player_idx
    /\ grid[t].is_land /\ grid[t].owner = current_player_idx
    /\ \E i \in DOMAIN territories :
           contains(territories[i], f) /\ contains(territories[i], t)

\* C22, for distinct cells: every successful reposition from a cell onto
\* another cell of the same territory leaves the sum of the tiers of the
\* acting player's combat units unchanged.
C22_TiersKeptBetweenCells ==
    phase = "play" =>
        \A f \in DOMAIN grid, t \in DOMAIN grid :
            LET r == move_unit(GS, f, t)
            IN  (r.ok /\ IsReposition(f, t) /\ f # t) =>
                    TierSum(r.gs, current_player_idx) = TierSum(GS, current_player_idx)

\* C22 as stated: every successful reposition leaves the sum of the tiers
\* of the acting player's combat units unchanged, for every choice of source
\* and target cell, source = target included.
C22_TiersKept ==
    phase = "play" =>
        \A f \in DOMAIN grid, t \in DOMAIN grid :
            LET r == move_unit(GS, f, t)
            IN  (r.ok /\ IsReposition(f, t)) =>
                    TierSum(r.gs, current_player_idx) = TierSum(GS, current_player_idx)

\* A unit can be combined into a unit on another cell, and a unit can be
\* moved onto its own cell, after which the cell is empty.
C22_Witness ==
    /\ phase = "play"
    /\ \E f \in DOMAIN grid, t \in DOMAIN grid :
           /\ f # t /\ IsReposition(f, t) /\ has_combat_unit(grid[t])
           /\ move_unit(GS, f, t).ok
    /\ \E f \in DOMAIN grid :
           LET r == move_unit(GS, f, f)
           IN  r.ok /\ r.gs.grid[f].unit = NONE

-----------------------------------------------------------------------------
(* Properties relating the search's action model to the engine *)

\* The actions the search proposes for the player to move on the live grid.
Proposed == get_search_actions(grid, current_player_idx)

\* C23: every Capture or Reposition that get_search_actions returns for the
\* current player on the live grid, with the game awaiting that player's
\* action, is accepted by move_unit in that state; and after an accepted
\* Capture the source cell and the target cell hold, field by field, what
\* fast_apply leaves on them.
C23_SearchActionsAreEngineMoves ==
    phase = "play" =>
        \A k \in DOMAIN Proposed :
            LET a == Proposed[k]
                r == move_unit(GS, a.from, a.to)
                fa == fast_apply(grid, current_player_idx, NumPlayers, a)
            IN  a.type \in {ACT_CAPTURE, ACT_MOVE} =>
                    /\ r.ok
                    /\ a.type = ACT_CAPTURE =>
                           /\ r.gs.grid[a.from] = fa.grid[a.from]
                           /\ r.gs.grid[a.to] = fa.grid[a.to]

\* The search proposes, in one state, the capture of a cell holding a
\* capital and the capture of a cell holding a unit, each of which makes the
\* engine recompute the territories of both players.
C23_Witness ==
    /\ phase = "play"
    /\ \E k \in DOMAIN Proposed :
           /\ Proposed[k].type = ACT_CAPTURE
           /\ grid[Proposed[k].to].has_capital
    /\ \E k \in DOMAIN Proposed :
           /\ Proposed[k].type = ACT_CAPTURE
           /\ has_combat_unit(grid[Proposed[k].to])

-----------------------------------------------------------------------------
(* Properties of the recomputation after a capture *)

\* The index, in gs, of the territory holding cell p.
TerritoryAt(gs, p) == CHOOSE k \in DOMAIN gs.territories : contains(gs.territories[k], p)

\* The territories of the attacker, before the move, that lie inside the
\* territory the captured cell t belongs to after it.
Parts(after, t) ==
    {i \in DOMAIN territories :
        /\ territories[i].owner = current_player_idx
        /\ SeqToSet(territories[i].hexes)
               \subseteq SeqToSet(after.territories[TerritoryAt(after, t)].hexes)}

LargestParts(after, t) ==
    {i \in Parts(after, t) :
        \A j \in Parts(after, t) : Len(territories[j].hexes) <= Len(territories[i].hexes)}

\* C24: when a capture joins several territories of the attacker, the
\* capital of the joined territory is the old capital of a territory of the
\* largest size among them, and that of the territory the attacking unit
\* came from whenever that territory has the largest size; every other old
\* capital inside the joined territory is gone.
C24_MergeCapital ==
    phase = "play" =>
        \A f \in DOMAIN grid, t \in DOMAIN grid :
            LET r == move_unit(GS, f, t)
                after == r.gs
                joined == after.territories[TerritoryAt(after, t)]
                cap == capital_hex(after.grid, joined)
                src == TerritoryAt(GS, f)
            IN  (r.ok /\ IsCapture(f, t) /\ Cardinality(Parts(after, t)) >= 2) =>
                    /\ \E i \in LargestParts(after, t) :
                           cap = capital_hex(grid, territories[i])
                    /\ src \in LargestParts(after, t) =>
                           cap = capital_hex(grid, territories[src])
                    /\ \A p \in SeqToSet(joined.hexes) :
                           after.grid[p].has_capital <=> p = cap

\* A capture can join two territories of the attacker of the same size, the
\* unit coming from the one whose capital comes later in the joined
\* territory's cell order.
C24_Witness ==
    /\ phase = "play"
    /\ \E f \in DOMAIN grid, t \in DOMAIN grid :
           LET r == move_unit(GS, f, t)
               after == r.gs
               joined == after.territories[TerritoryAt(after, t)]
               src == TerritoryAt(GS, f)
           IN  /\ r.ok /\ IsCapture(f, t)
               /\ Cardinality(Parts(after, t)) >= 2
               /\ LargestParts(after, t) = Parts(after, t)
               /\ \E i \in Parts(after, t) :
                      /\ i # src
                      /\ \E a, b \in DOMAIN joined.hexes :
                             /\ a < b
                             /\ joined.hexes[a] = capital_hex(grid, territories[i])
                             /\ joined.hexes[b] = capital_hex(grid, territories[src])

\* The territories of the victim, after the move, made of cells of the
\* territory that held the captured cell t: its remnants or fragments.
Remnants(after, t) ==
    {k \in DOMAIN after.territories :
        /\ after.territories[k].owner = grid[t].owner
        /\ SeqToSet(after.territories[k].hexes)
               \subseteq SeqToSet(territories[TerritoryAt(GS, t)].hexes)}

\* The victim's territories, before the move, other than the one attacked.
OtherTerritories(t) ==
    {i \in DOMAIN territories :
        territories[i].owner = grid[t].owner /\ ~contains(territories[i], t)}

\* The captured cell and its neighbours.
Zone(t) == {t} \cup SeqToSet(get_neighbors(grid, t))

\* A cell without unit, castle or tree.
FreeCell(g, p) == ~has_combat_unit(g[p]) /\ ~g[p].has_castle /\ ~has_tree(g[p])

\* What C25 says of the remnants of the victim territory: each has treasury
\* 0, and each of two or more cells that has a free cell outside the zone
\* has its new capital outside the zone.
RemnantsRefounded(after, t) ==
    \A k \in Remnants(after, t) :
        LET rem == after.territories[k]
        IN  /\ rem.gold = 0
            /\ (Len(rem.hexes) >= 2
                /\ \E p \in SeqToSet(rem.hexes) : FreeCell(grid, p) /\ p \notin Zone(t))
                   => /\ capital_hex(after.grid, rem) # NoHex
                      /\ capital_hex(after.grid, rem) \notin Zone(t)
                      /\ after.grid[capital_hex(after.grid, rem)].has_capital

GoldOfPlayer(gs, player_id) ==
    SumSeq([k \in DOMAIN gs.territories |->
               IF gs.territories[k].owner = player_id THEN gs.territories[k].gold ELSE 0])

\* The capture of t, a cell without capital, cuts its territory into
\* several fragments.
Splits(r, t) ==
    /\ r.ok
    /\ grid[t].owner \in Players /\ grid[t].owner # current_player_idx
    /\ ~grid[t].has_capital
    /\ Cardinality(Remnants(r.gs, t)) >= 2

\* The gold the fragments of the attacked territory hold together.
FragmentsGold(after, t) ==
    SumSeq([k \in DOMAIN after.territories |->
               IF k \in Remnants(after, t) THEN after.territories[k].gold ELSE 0])

\* What C26 says of the treasuries of the fragments: the one with the old
\* capital holds the whole treasury and the others 0.
TreasuryStaysWithCapital(after, t) ==
    LET before == territories[TerritoryAt(GS, t)]
        old_cap == capital_hex(grid, before)
    IN  /\ old_cap # NoHex
        /\ \A k \in Remnants(after, t) :
               after.territories[k].gold =
                   IF contains(after.territories[k], old_cap) THEN before.gold ELSE 0

-----------------------------------------------------------------------------
(* Properties of capital placement *)

\* The grid as the capture of t from f leaves it when the recomputation
\* begins: the two cells rewritten, every capital still in place.
Captured(f, t) ==
    fast_apply(grid, current_player_idx, NumPlayers, Act(ACT_CAPTURE, f, t)).grid

\* The old capitals of its owner that lie in the territory nt formed by the
\* recomputation: the positions that can be preferred.
InheritedCapitals(pre, nt) ==
    {p \in SeqToSet(nt.hexes) :
        /\ pre[p].has_capital
        /\ \E i \in DOMAIN territories :
               territories[i].owner = nt.owner /\ capital_hex(grid, territories[i]) = p}

\* Cell p holds after the recomputation the unit and castle it held before.
Spared(pre, post, p) ==
    post[p].unit = pre[p].unit /\ post[p].has_castle = pre[p].has_castle

\* The capital of nt, a territory of two or more cells, has been placed by
\* the priority order, and nothing else in nt has been touched.
PlacedByPriority(pre, post, nt) ==
    LET cells == SeqToSet(nt.hexes)
        cap == capital_hex(post, nt)
        units == {p \in cells : has_combat_unit(pre[p])}
    IN  /\ cap \in cells
        /\ \A p \in cells : post[p].has_capital <=> p = cap
        /\ \A p \in cells \ {cap} : Spared(pre, post, p)
        /\ IF InheritedCapitals(pre, nt) # {}
           THEN cap \in InheritedCapitals(pre, nt) /\ Spared(pre, post, cap)
           ELSE IF \E p \in cells : FreeCell(pre, p)
           THEN FreeCell(pre, cap) /\ Spared(pre, post, cap)
           ELSE IF \E p \in cells : pre[p].has_castle
           THEN /\ pre[cap].has_castle /\ ~post[cap].has_castle
                /\ post[cap].unit = pre[cap].unit
           ELSE IF units # {}
           THEN /\ cap \in units
                /\ \A p \in units : unit_power(pre[p].unit) <= unit_power(pre[cap].unit)
                /\ post[cap].unit = NONE /\ ~post[cap].grave
           ELSE cap = nt.hexes[1] /\ post[cap].unit = NONE

\* C27: in the recomputation that follows a capture, the capital of every
\* territory of two or more cells is placed by the priority order: on the
\* preferred position, an old capital of the territory; else on a cell
\* without unit, castle or tree; else on a castle cell, whose castle is
\* demolished; else on the cell of a unit of highest power, which is
\* killed; else on the first cell, which is cleared.  No other cell loses a
\* unit or a castle: so no castle and no unit is destroyed in a territory
\* with a free cell, and no unit is killed in a territory with a castle.
C27_CapitalPriority ==
    phase = "play" =>
        \A f \in DOMAIN grid, t \in DOMAIN grid :
            LET r == move_unit(GS, f, t)
            IN  (r.ok /\ grid[t].owner # current_player_idx) =>
                    \A k \in DOMAIN r.gs.territories :
                        LET nt == r.gs.territories[k]
                        IN  IF Len(nt.hexes) >= 2
                            THEN PlacedByPriority(Captured(f, t), r.gs.grid, nt)
                            ELSE /\ ~r.gs.grid[nt.hexes[1]].has_capital
                                 /\ Spared(Captured(f, t), r.gs.grid, nt.hexes[1])

\* The capture of one capital leaves a remnant of units only, one of which
\* must die, and the capture of another leaves a remnant of units and a
\* castle, which must go.
C27_Witness ==
    /\ phase = "play"
    /\ \E f \in DOMAIN grid, t1 \in DOMAIN grid, t2 \in DOMAIN grid :
           LET r1 == move_unit(GS, f, t1)
               r2 == move_unit(GS, f, t2)
           IN  /\ r1.ok /\ grid[t1].owner # current_player_idx
               /\ r2.ok /\ grid[t2].owner # current_player_idx
               /\ \E p \in DOMAIN grid :
                      /\ p # t1 /\ has_combat_unit(grid[p])
                      /\ r1.gs.grid[p].unit = NONE /\ r1.gs.grid[p].has_capital
               /\ \E p \in DOMAIN grid :
                      /\ p # t2 /\ grid[p].has_castle
                      /\ ~r2.gs.grid[p].has_castle /\ r2.gs.grid[p].has_capital

-----------------------------------------------------------------------------
(* Properties of tree growth *)

\* The number of neighbours of p that hold a tree of the given kind in g.
TreesAround(g, p, kind) ==
    LET nb == get_neighbors(g, p)
    IN  Cardinality({i \in DOMAIN nb : g[nb[i]].is_land /\ g[nb[i]].unit = kind})

\* The tree that suits cell p: a palm on the coast, a pine inland.
TreeFor(g, p) == IF is_coastal(g, p) THEN TREE_PALM ELSE TREE_PINE

\* C28: tree growth in start_turn is one pass that does not cascade.  With
\* pre the grid before the pass and post the grid after it: a grave of the
\* acting player becomes a palm if coastal and a pine otherwise; an empty
\* cell of the acting player (no unit, tree, capital, castle or grave)
\* becomes a palm iff it is coastal and has a neighbour that is a palm in
\* pre, a pine iff it is inland and has two or more neighbours that are
\* pines in pre, whoever owns them, and stays empty otherwise; and every
\* other cell, those of the other player and of nobody included, is as it
\* was.
C28_TreeGrowth ==
    LET before == StartTurnInput
        pid == before.current_player_idx
        pre == grid_before_growth(before)
        post == grow_trees(pre, pid)
    IN  before.alive[pid] =>
            \A p \in DOMAIN pre :
                IF pre[p].is_land /\ pre[p].owner = pid /\ pre[p].grave
                THEN post[p] = [pre[p] EXCEPT !.unit = TreeFor(pre, p), !.grave = FALSE]
                ELSE IF pre[p].owner = pid /\ is_empty_land(pre[p])
                THEN /\ post[p].unit \in {NONE, TREE_PALM, TREE_PINE}
                     /\ post[p] = [pre[p] EXCEPT !.unit = post[p].unit]
                     /\ post[p].unit = TREE_PALM <=>
                            is_coastal(pre, p) /\ TreesAround(pre, p, TREE_PALM) >= 1
                     /\ post[p].unit = TREE_PINE <=>
                            ~is_coastal(pre, p) /\ TreesAround(pre, p, TREE_PINE) >= 2
                ELSE post[p] = pre[p]

\* start_turn is due for a player with an inland empty cell between two
\* pines, one of them the other player's, and a coastal empty cell beside a
\* grave of this pass, which becomes a palm while the cell stays empty.
C28_Witness ==
    LET before == StartTurnInput
        pid == before.current_player_idx
        pre == grid_before_growth(before)
        post == grow_trees(pre, pid)
        mine(p) == pre[p].is_land /\ pre[p].owner = pid
    IN  /\ phase = "start"
        /\ before.alive[pid]
        /\ \E p \in DOMAIN pre :
               /\ mine(p) /\ is_empty_land(pre[p]) /\ post[p].unit = TREE_PINE
               /\ \E q \in SeqToSet(get_neighbors(pre, p)) :
                      pre[q].unit = TREE_PINE /\ pre[q].owner # pid
        /\ \E p \in DOMAIN pre :
               /\ mine(p) /\ is_empty_land(pre[p]) /\ is_coastal(pre, p)
               /\ post[p].unit = NONE
               /\ \E q \in SeqToSet(get_neighbors(pre, p)) :
                      pre[q].grave /\ post[q].unit = TREE_PALM

-----------------------------------------------------------------------------
(* Properties of the hand-over of the turn *)

\* The land cells that player p owns.
CellsOf(p) == {c \in DOMAIN grid : grid[c].is_land /\ grid[c].owner = p}

\* C29 (as the code has it): whenever the game is not over and GameState is
\* awaiting an action, the current player is alive or owns no cell at all: a
\* player whose last cell was taken is handed one more turn, in which their
\* own start_turn marks them dead and returns without advancing.
C29_CurrentPlayerAliveOrJustDied ==
    (phase = "play" /\ ~game_over) =>
        (alive[current_player_idx] \/ CellsOf(current_player_idx) = {})

\* C29 (as stated): whenever the game is not over and GameState is awaiting
\* an action, the current player is alive.
C29_CurrentPlayerAlive ==
    (phase = "play" /\ ~game_over) => alive[current_player_idx]

\* The game goes on, it awaits an action of a player whom start_turn has
\* just marked dead, and two other players are alive.
C29_Witness ==
    /\ phase = "play"
    /\ ~game_over
    /\ ~alive[current_player_idx]
    /\ Cardinality({p \in DOMAIN alive : alive[p]}) = 2

\* A step that is an end_turn: GameState awaits an action before and after
\* it, and the turn has passed on.
EndTurnStep ==
    /\ phase = "play"
    /\ phase' = "play"
    /\ (current_player_idx' # current_player_idx \/ turn_number' # turn_number)

\* The player whom end_turn reaches first when it goes round the indexes
\* from the current one, among those whose alive flag is set in gs, and
\* whether it passes from the last index to index 0 on the way.
HandedTo(gs) ==
    LET n == Cardinality(DOMAIN gs.alive)
        at(k) == (gs.current_player_idx + k) % n
        k == CHOOSE k \in 1..n : gs.alive[at(k)] /\ \A j \in 1..(k - 1) : ~gs.alive[at(j)]
    IN  [idx |-> at(k),
         wraps |-> IF gs.current_player_idx + k >= n THEN 1 ELSE 0,
         skipped |-> {at(j) : j \in 1..(k - 1)}]

\* The territories of gs that player p does not own.
TerritoriesOfOthers(gs, p) ==
    {gs.territories[i] : i \in {j \in DOMAIN gs.territories : gs.territories[j].owner # p}}

\* What end_turn has done when it has taken gs to after.
HandedOver(gs, after) ==
    LET to == HandedTo(gs)
    IN  /\ after.current_player_idx = to.idx
        /\ after.turn_number = gs.turn_number + to.wraps
        \* nothing is collected or grown for anybody else, skipped or not
        /\ \A c \in DOMAIN gs.grid :
               gs.grid[c].owner # to.idx => after.grid[c] = gs.grid[c]
        /\ \A t \in TerritoriesOfOthers(after, to.idx) :
               \E u \in TerritoriesOfOthers(gs, to.idx) :
                   /\ t.owner = u.owner /\ t.hexes = u.hexes
                   /\ t.capital_hex = u.capital_hex
                   /\ t.gold <= u.gold
        \* can_move is set on the units of the new current player, on all of
        \* them and on nothing else
        /\ \A c \in DOMAIN gs.grid :
               after.grid[c].owner = to.idx =>
                   after.grid[c].can_move = has_combat_unit(after.grid[c])

\* C30: end_turn hands the turn to the next player in cyclic index order
\* whose alive flag is set, skipping dead players without collecting income
\* or growing trees for them (the cells of everybody but the new current
\* player are left as they were, and so are their territories, none of
\* which gains gold); turn_number increases by
\* exactly 1 each time the index wraps to 0; and start_turn sets can_move =
\* true on exactly the new current player's combat units.
C30_HandOver == [][EndTurnStep => HandedOver(GS, GS')]_vars

\* end_turn is due in a game in which it skips a dead player, and in which
\* it hands a unit that has moved back to its player, the new current one,
\* while a unit of the player who ends the turn can still move.
C30_Witness ==
    /\ phase = "play"
    /\ turn_number < MaxTurn
    /\ HandedTo(GS).skipped # {}
    /\ \E after \in {end_turn(GS)} :
           /\ HandedOver(GS, after)
           /\ \E c \in DOMAIN grid :
                  /\ has_combat_unit(grid[c]) /\ ~grid[c].can_move
                  /\ after.grid[c].owner = after.current_player_idx
                  /\ after.grid[c].can_move
           /\ \E c \in DOMAIN grid :
                  /\ grid[c].owner = current_player_idx
                  /\ has_combat_unit(grid[c]) /\ grid[c].can_move
                  /\ after.grid[c].can_move

-----------------------------------------------------------------------------
(* Properties of a reposition, cell by cell *)

\* What a successful reposition from f onto t has left in after.
Repositioned(f, t, after) ==
    LET th == grid[t]
        moved == grid[f].unit
    IN  \* the target, by what it held
        /\ has_combat_unit(th) =>
               after.grid[t].unit = combine_units(th.unit, moved)
        /\ (has_tree(th) \/ th.grave) =>
               /\ after.grid[t].unit = moved
               /\ ~after.grid[t].grave
               /\ ~after.grid[t].can_move
        /\ (th.unit = NONE /\ ~th.grave) =>
               /\ after.grid[t].unit = moved
               /\ after.grid[t].can_move
        \* the source
        /\ f # t => (after.grid[f].unit = NONE /\ ~after.grid[f].can_move)
        \* never onto a capital or a castle
        /\ ~th.has_capital /\ ~th.has_castle
        \* nothing else
        /\ \A p \in DOMAIN grid :
               /\ p \notin {f, t} => after.grid[p] = grid[p]
               /\ after.grid[p].owner = grid[p].owner
               /\ after.grid[p].has_capital = grid[p].has_capital
               /\ after.grid[p].has_castle = grid[p].has_castle
        /\ after.territories = territories

\* C31 (between two cells): a successful reposition onto an empty cell
\* leaves the moved unit with can_move = true; onto a tree or grave it
\* removes the tree/grave and leaves the unit with can_move = false; onto a
\* friendly unit on another cell it replaces it by the combined unit; in all
\* cases the source cell becomes empty with can_move = false; a target
\* holding a capital or castle is rejected; and no territory, treasury or
\* ownership changes.
C31_RepositionBetweenCells ==
    phase = "play" =>
        \A f \in DOMAIN grid, t \in DOMAIN grid :
            \A r \in {move_unit(GS, f, t)} :
                (r.ok /\ IsReposition(f, t) /\ f # t) => Repositioned(f, t, r.gs)

\* C31 as stated, for every source and every target inside the territory,
\* the source itself included.
C31_Reposition ==
    phase = "play" =>
        \A f \in DOMAIN grid, t \in DOMAIN grid :
            \A r \in {move_unit(GS, f, t)} :
                (r.ok /\ IsReposition(f, t)) => Repositioned(f, t, r.gs)

\* Some unit of the current player that can move is accepted on cell t of
\* its territory, another cell than its own.
RepositionOnto(t) ==
    \E f \in DOMAIN grid :
        f # t /\ IsReposition(f, t) /\ move_unit(GS, f, t).ok

\* In one state a unit can be combined into a unit on another cell, a unit
\* can chop a tree, a unit that can move is refused on the capital of its
\* territory, and a unit moved onto its own cell is accepted and gone.
C31_Witness ==
    /\ phase = "play"
    /\ \E t \in DOMAIN grid : has_combat_unit(grid[t]) /\ RepositionOnto(t)
    /\ \E t \in DOMAIN grid : has_tree(grid[t]) /\ RepositionOnto(t)
    /\ \E f \in DOMAIN grid, t \in DOMAIN grid :
           /\ f # t /\ IsReposition(f, t)
           /\ has_combat_unit(grid[f]) /\ grid[f].can_move
           /\ grid[t].has_capital
           /\ ~move_unit(GS, f, t).ok
    /\ \E f \in DOMAIN grid :
           \E r \in {move_unit(GS, f, f)} : r.ok /\ r.gs.grid[f].unit = NONE

-----------------------------------------------------------------------------
(* Properties of the purchases *)

\* after differs from the present game in cell p and in the treasury of
\* territory ti at most, which is lower by cost; the owner, the capital and
\* the castle of p apart from a castle built there are for the callers.
OnlyBought(after, ti, p, cost) ==
    /\ \A q \in DOMAIN grid : q # p => after.grid[q] = grid[q]
    /\ after.grid[p].owner = grid[p].owner
    /\ after.grid[p].is_land = grid[p].is_land
    /\ after.grid[p].has_capital = grid[p].has_capital
    /\ DOMAIN after.territories = DOMAIN territories
    /\ after.territories[ti] = [territories[ti] EXCEPT !.gold = @ - cost]
    /\ \A i \in DOMAIN territories : i # ti => after.territories[i] = territories[i]
    /\ after.current_player_idx = current_player_idx
    /\ after.turn_number = turn_number
    /\ after.alive = alive
    /\ after.game_over = game_over

\* C32: a successful buy_peasant reduces the given territory's treasury by
\* exactly 10 and a successful buy_castle by exactly 15; each changes only
\* the target cell (peasant placed, or combined into the combat unit there,
\* with can_move = true; castle placed with unit and grave cleared) and
\* leaves cell ownership, every other cell, every other treasury and the
\* territory partition unchanged; buy_castle succeeds only on a land cell of
\* the territory with no castle, no capital and no combat unit.
C32_Purchases ==
    phase = "play" =>
        \A ti \in DOMAIN territories, p \in DOMAIN grid :
            /\ \A r \in {buy_peasant(GS, ti, p)} :
                   r.ok =>
                       /\ OnlyBought(r.gs, ti, p, 10)
                       /\ r.gs.grid[p].unit =
                              IF has_combat_unit(grid[p])
                              THEN combine_units(grid[p].unit, PEASANT) ELSE PEASANT
                       /\ r.gs.grid[p].can_move
                       /\ ~r.gs.grid[p].grave
                       /\ r.gs.grid[p].has_castle = grid[p].has_castle
            /\ \A r \in {buy_castle(GS, ti, p)} :
                   r.ok =>
                       /\ OnlyBought(r.gs, ti, p, 15)
                       /\ r.gs.grid[p].has_castle
                       /\ r.gs.grid[p].unit = NONE
                       /\ ~r.gs.grid[p].grave
                       /\ r.gs.grid[p].can_move = grid[p].can_move
                       /\ grid[p].is_land
                       /\ contains(territories[ti], p)
                       /\ ~grid[p].has_castle /\ ~grid[p].has_capital
                       /\ ~has_combat_unit(grid[p])

\* In one state a peasant can be bought onto a unit, with which it
\* combines, and a castle can be bought on a cell that holds a tree;
\* neither can be bought on the capital.
C32_Witness ==
    /\ phase = "play"
    /\ \E ti \in DOMAIN territories, p \in DOMAIN grid, q \in DOMAIN grid :
           /\ has_combat_unit(grid[p]) /\ buy_peasant(GS, ti, p).ok
           /\ has_tree(grid[q]) /\ buy_castle(GS, ti, q).ok
           /\ \E c \in DOMAIN grid :
                  /\ grid[c].has_capital /\ contains(territories[ti], c)
                  /\ ~buy_peasant(GS, ti, c).ok /\ ~buy_castle(GS, ti, c).ok

-----------------------------------------------------------------------------
(* Properties of the defence of a cell *)

\* The cells whose defence power protects cell p: p and its neighbours with
\* the owner of p.
Defenders(g, p) ==
    {p} \cup {q \in SeqToSet(get_neighbors(g, p)) : g[q].owner = g[p].owner}

\* The tier of what stands on a cell: 0 for nothing and for a tree.
TierOf(h) ==
    CASE h.unit = PEASANT -> 1
      [] h.unit = SPEARMAN -> 2
      [] h.unit = KNIGHT -> 3
      [] h.unit = BARON -> 4
      [] OTHER -> 0

\* A capture of cell t by the unit on cell f that move_unit accepts.
Captures(f, t) ==
    /\ grid[t].owner # current_player_idx
    /\ move_unit(GS, f, t).ok

-----------------------------------------------------------------------------
(* Properties of the search's move generation *)

\* The cells of player p that hold a combat unit with can_move.
MovableUnits(g, p) ==
    {f \in DOMAIN g : /\ g[f].is_land /\ g[f].owner = p
                      /\ has_combat_unit(g[f]) /\ g[f].can_move}

\* The captures and the repositions that the claim lists for player p.
CapturesFor(g, p) ==
    {Act(ACT_CAPTURE, f, t) : <<f, t>> \in
        {pr \in MovableUnits(g, p) \X DOMAIN g :
            /\ pr[2] \in SeqToSet(get_neighbors(g, pr[1]))
            /\ g[pr[2]].is_land /\ g[pr[2]].owner # p
            /\ get_relative_power(g, pr[2]) < TierOf(g[pr[1]])}}

RepositionsFor(g, p) ==
    {Act(ACT_MOVE, f, t) : <<f, t>> \in
        {pr \in MovableUnits(g, p) \X DOMAIN g :
            /\ pr[2] \in SeqToSet(get_neighbors(g, pr[1]))
            /\ g[pr[2]].is_land /\ g[pr[2]].owner = p
            /\ g[pr[2]].unit = NONE
            /\ ~g[pr[2]].has_capital /\ ~g[pr[2]].has_castle /\ ~g[pr[2]].grave}}

\* acts lists every element of caps once, then every element of moves once,
\* then EndTurn.
ListsInOrder(acts, caps, moves) ==
    LET nc == Cardinality(caps)
        nm == Cardinality(moves)
    IN  /\ Len(acts) = nc + nm + 1
        /\ {acts[k] : k \in 1..nc} = caps
        /\ {acts[k] : k \in (nc + 1)..(nc + nm)} = moves
        /\ acts[Len(acts)] = EndTurnAct

\* C34: get_search_actions(grid, p) returns exactly: one Capture (from, to)
\* for every land cell of p holding a combat unit with can_move and every
\* land neighbour not owned by p whose relative power is strictly below the
\* unit's power; one Reposition for every such unit and every neighbour
\* owned by p that is land with no unit, tree, capital, castle or grave; and
\* exactly one EndTurn; ordered with all Captures first, then all
\* Repositions, then EndTurn last, so the list is never empty.
C34_SearchActions ==
    \A p \in Players :
        \A acts \in {get_search_actions(grid, p)} :
            /\ ListsInOrder(acts, CapturesFor(grid, p), RepositionsFor(grid, p))
            /\ acts # <<>>

\* A player has, in one state, a capture and a reposition to choose from,
\* a neighbour of a movable unit that is too strong to capture, and an own
\* neighbour that is no target of a reposition.
C34_Witness ==
    \E p \in Players :
        /\ CapturesFor(grid, p) # {}
        /\ RepositionsFor(grid, p) # {}
        /\ \E f \in MovableUnits(grid, p) :
               \E i \in DOMAIN get_neighbors(grid, f) :
                   LET t == get_neighbors(grid, f)[i]
                   IN  /\ grid[t].is_land /\ grid[t].owner # p
                       /\ get_relative_power(grid, t) >= TierOf(grid[f])
        /\ \E f \in MovableUnits(grid, p) :
               \E i \in DOMAIN get_neighbors(grid, f) :
                   LET t == get_neighbors(grid, f)[i]
                   IN  /\ grid[t].is_land /\ grid[t].owner = p
                       /\ (grid[t].has_capital \/ grid[t].unit # NONE)

-----------------------------------------------------------------------------
(* Properties of the active player in the reduced model *)

\* The cells that hold a combat unit of player p.
CombatCellsOf(g, p) == {c \in DOMAIN g : g[c].owner = p /\ has_combat_unit(g[c])}

\* What EndTurn does for active player p on the present grid.
EndTurnPasses(p) ==
    LET next == (p + 1) % NumPlayers
    IN  \A r \in {fast_apply(grid, p, NumPlayers, EndTurnAct)} :
            /\ r.idx = next
            /\ \A c \in DOMAIN grid :
                   IF c \in CombatCellsOf(grid, next)
                   THEN r.grid[c] = [grid[c] EXCEPT !.can_move = TRUE]
                   ELSE r.grid[c] = grid[c]
            /\ DOMAIN r.undo.saved = CombatCellsOf(grid, next)
            /\ \A c \in DOMAIN r.undo.saved : r.undo.saved[c] = grid[c].can_move

\* The frames of the stack above the root loop: each runs for the player that
\* the action its caller has applied leaves active, and maximises iff that
\* player is the root player.
FramesFollowActivePlayer ==
    \A k \in DOMAIN stack :
        /\ stack[k].kind = "root" => (k = 1 /\ stack[k].pidx = search.player)
        /\ stack[k].kind # "root" =>
               /\ k > 1
               /\ (stack[k].kind = "max") = (stack[k].pidx = search.player)
               /\ (stack[k].kind = "min") = (stack[k].pidx # search.player)
               /\ LET a == stack[k - 1].actions[stack[k - 1].i]
                  IN  stack[k].pidx =
                          IF a.type = ACT_END_TURN
                          THEN (stack[k - 1].pidx + 1) % NumPlayers
                          ELSE stack[k - 1].pidx

\* C35: in the reduced model Capture and Reposition keep the active player
\* and only EndTurn changes it, to (index + 1) mod number of players; EndTurn
\* sets can_move = true on exactly the next player's combat units and
\* records only those cells; a search node maximises iff its active player
\* is the root player, independent of depth parity.
C35_ActivePlayer ==
    /\ \A p \in Players :
           /\ \A acts \in {get_search_actions(grid, p)} :
                  \A k \in DOMAIN acts :
                      acts[k].type # ACT_END_TURN =>
                          fast_apply(grid, p, NumPlayers, acts[k]).idx = p
           /\ EndTurnPasses(p)
    /\ FramesFollowActivePlayer

\* A search is three calls deep in which two nodes at successive depths both
\* maximise, below them a node minimises, and the EndTurn between them has
\* set can_move on a unit of the minimising player that could not move.
C35_Witness ==
    /\ Len(stack) >= 3
    /\ \E k \in 2..(Len(stack) - 1) :
           /\ stack[k - 1].kind \in {"root", "max"}
           /\ stack[k].kind = "max"
           /\ stack[k + 1].kind = "min"
           /\ stack[k].actions[stack[k].i].type = ACT_END_TURN
           /\ \E c \in DOMAIN stack[k].undo.saved : ~stack[k].undo.saved[c]

-----------------------------------------------------------------------------
(* Properties of graves *)

\* C36: after map setup and after every completed GameState operation no
\* cell is a grave: units killed by bankruptcy in a player's start_turn are
\* converted to trees within that same start_turn, and a unit killed to make
\* room for a capital leaves no grave.
C36_NoGraves == \A c \in DOMAIN grid : ~grid[c].grave

\* An action is awaited from a player who can take a capital whose
\* territory has no room for a new one, so that a unit dies for it; and when
\* that player ends the turn the unit of the next player goes bankrupt and
\* its cell holds a tree.
C36_Witness ==
    /\ phase = "play"
    /\ turn_number < MaxTurn
    /\ \E f \in DOMAIN grid, t \in DOMAIN grid, c \in DOMAIN grid :
           \E r \in {move_unit(GS, f, t)} :
               /\ r.ok /\ grid[t].has_capital
               /\ c # t /\ has_combat_unit(grid[c]) /\ grid[c].owner = grid[t].owner
               /\ r.gs.grid[c].has_capital /\ r.gs.grid[c].unit = NONE
               /\ ~r.gs.grid[c].grave
    /\ \E c \in DOMAIN grid :
           \E after \in {end_turn(GS)} :
               /\ has_combat_unit(grid[c])
               /\ has_tree(after.grid[c]) /\ ~after.grid[c].grave

-----------------------------------------------------------------------------
(* Properties of a repeated recomputation *)

\* The game as one more refresh_territories(), without hints, leaves it.
Refreshed == refresh_territories(grid, territories, NoAvoid, NoHex)

\* C37, but for the treasury of a single cell: when GameState awaits an
\* action, every recomputation of the turn having been made, another
\* refresh_territories without hints leaves the grid, the cell set of every
\* territory, every capital position and the treasury of every territory of
\* two or more cells exactly as they are; a territory of a single cell ends
\* with no gold.
C37_IdempotentButSingleCells ==
    phase = "play" =>
        \A r \in {Refreshed} :
            /\ r.grid = grid
            /\ DOMAIN r.territories = DOMAIN territories
            /\ \A i \in DOMAIN territories :
                   /\ r.territories[i].owner = territories[i].owner
                   /\ r.territories[i].hexes = territories[i].hexes
                   /\ r.territories[i].capital_hex = territories[i].capital_hex
                   /\ r.territories[i].gold =
                          IF Len(territories[i].hexes) >= 2
                          THEN territories[i].gold ELSE 0

\* C37 as stated: refresh_territories is idempotent when cell ownership has
\* not changed: calling it (without hints) a second time leaves the grid,
\* the cell set of every territory, every treasury and every capital
\* position exactly as after the first call.
C37_Idempotent ==
    phase = "play" =>
        \A r \in {Refreshed} : r.grid = grid /\ r.territories = territories

\* A capture has cut a capital off on a cell of its own, and the territory
\* of that single cell holds the treasury; other territories hold gold and
\* a capital.
C37_Witness ==
    /\ phase = "play"
    /\ \E i \in DOMAIN territories :
           Len(territories[i].hexes) = 1 /\ territories[i].gold > 0
    /\ \E i \in DOMAIN territories :
           /\ Len(territories[i].hexes) >= 2 /\ territories[i].gold > 0
           /\ territories[i].capital_hex # NoHex
           /\ territories[i].owner # current_player_idx

-----------------------------------------------------------------------------
(* Properties of the end of take_turn *)

\* The places in ops of the end_turn operations.
EndTurns(ops) == {k \in DOMAIN ops : ops[k].op = "end_turn"}

TakeTurnReturned == ai.pc = "done"

\* A take_turn that has returned issued at most one end_turn, as its last
\* operation, and then the turn is with another player or the game is over;
\* it issued none exactly when its loop ran out of its max_actions passes,
\* each of which applied a capture or a reposition, and then the turn is
\* still with the same player in a game that goes on.
ReturnedInOrder ==
    TakeTurnReturned =>
        /\ Cardinality(EndTurns(ai.ops)) <= 1
        /\ EndTurns(ai.ops) # {} =>
               /\ EndTurns(ai.ops) = {Len(ai.ops)}
               /\ current_player_idx # ai.pid \/ game_over
        /\ EndTurns(ai.ops) = {} =>
               /\ ai.i = max_actions
               /\ ai.actions_taken = max_actions
               /\ current_player_idx = ai.pid
               /\ ~game_over

\* C38, as far as the code goes: every take_turn called for the player to
\* move in a game that is not over returns, and when it returns it has issued
\* one end_turn as its last operation and handed the turn over, unless every
\* one of the max_actions passes of its loop applied a capture or a
\* reposition: then it returns without any end_turn and the same player is
\* still to move.
C38_TerminatesHandedOverUnlessExhausted ==
    /\ []ReturnedInOrder
    /\ TakeTurnRuns ~> TakeTurnReturned

\* C38, as stated: every take_turn called for the player to move in a game
\* that is not over terminates, and when it returns exactly one end_turn was
\* issued and the current player has changed or the game is over.
C38_TerminatesHandedOver ==
    /\ [](TakeTurnReturned =>
              /\ Cardinality(EndTurns(ai.ops)) = 1
              /\ current_player_idx # ai.pid \/ game_over)
    /\ TakeTurnRuns ~> TakeTurnReturned

\* A take_turn has returned after a purchase, a move of a unit and one
\* end_turn, and the other player is to move.
C38_Witness ==
    /\ TakeTurnReturned
    /\ EndTurns(ai.ops) = {Len(ai.ops)}
    /\ \E k \in DOMAIN ai.ops : ai.ops[k].op = "buy_peasant"
    /\ \E k \in DOMAIN ai.ops : ai.ops[k].op = "move_unit" /\ ai.ops[k].ok
    /\ current_player_idx # ai.pid
    /\ ~game_over

-----------------------------------------------------------------------------
(* Properties of the neighbour lookup *)

NeighborSet(p) == SeqToSet(get_neighbors(grid, p))

\* A cell with a column on either side and a row above and below.
Interior(p) ==
    /\ 0 < p[1] /\ p[1] < GridWidth(grid) - 1
    /\ 0 < p[2] /\ p[2] < GridHeight(grid) - 1

\* C39: on a grid of any size, b is among the neighbours of a exactly when a
\* is among the neighbours of b, no cell is its own neighbour, every
\* neighbour is a cell of the grid, get_neighbors returns at most 6 cells
\* and no cell twice, and it returns exactly 6 for a cell that is not on the
\* edge of the grid.
C39_Neighbors ==
    \A a \in DOMAIN grid :
        /\ \A b \in DOMAIN grid : b \in NeighborSet(a) <=> a \in NeighborSet(b)
        /\ a \notin NeighborSet(a)
        /\ NeighborSet(a) \subseteq DOMAIN grid
        /\ Len(get_neighbors(grid, a)) <= 6
        /\ Cardinality(NeighborSet(a)) = Len(get_neighbors(grid, a))
        /\ Interior(a) => Cardinality(NeighborSet(a)) = 6

\* A game is being played on a grid that has cells off the edge in an even
\* and in an odd column, each with its 6 neighbours, and a corner cell with
\* 2; a unit stands away from the cells units were drawn on.
C39_Witness ==
    /\ phase = "play"
    /\ \E a \in DOMAIN grid, b \in DOMAIN grid :
           /\ Interior(a) /\ a[1] % 2 = 0 /\ Cardinality(NeighborSet(a)) = 6
           /\ Interior(b) /\ b[1] % 2 = 1 /\ Cardinality(NeighborSet(b)) = 6
    /\ Cardinality(NeighborSet(<<0, 0>>)) = 2
    /\ \E p \in DOMAIN grid :
           /\ has_combat_unit(grid[p])
           /\ p # <<0, 0>>
           /\ p # <<GridWidth(grid) - 1, GridHeight(grid) - 1>>

====
